---- MODULE Spec2Model ----
(***************************************************************************)
(* A model of term-data-table: the Cell text layout and line rendering     *)
(* (src/src/cell.rs), the border junctions of a Row (src/src/row.rs), the  *)
(* Table renderer and its column widths (src/src/lib.rs with               *)
(* src/src/table_cell.rs) and the fixed-width column solver.               *)
(*                                                                         *)
(* A string is a sequence of one-byte characters, so byte offsets and      *)
(* character positions coincide: "a" is a letter (class AL, width 1),      *)
(* " " a space (class SP, width 1), "\n" a line feed (class LF, width 0).  *)
(* An ANSI escape sequence is the escape character (class CM, width 0)     *)
(* followed by its final byte "m" (class AL, width 1).                     *)
(* A panic ends the run: no action is enabled after it.                    *)
(***************************************************************************)
EXTENDS Integers, Sequences, FiniteSets, TLC

\* ------------------------------------------------------------------ bounds
MaxLen == 5
MaxWidth == 7
MaxLine == 3

\* usize::MAX, the width layout substitutes for None.  Only compared and
\* decremented by two, so the value the model checker can hold stands for it.
USIZE_MAX == 2147483647

\* ------------------------------------------------------------------ text
LETTER == "a"
SPACE == " "
LF == "\n"
Alphabet == {LETTER, SPACE, LF}

\* The escape character and the final byte of an escape sequence.
ESC == "\\x1b"
FINAL_M == "m"

Strings(n) == UNION {[1..k -> Alphabet] : k \in 0..n}

\* The NUL character, the edge and padding character of an unpadded cell.
NUL == "\\0"

\* A character that takes two columns, such as a CJK ideograph.
WIDE == "W"

\* UnicodeWidthChar::width: a control character counts 0 in a str.
CharWidth(ch) == IF ch \in {LF, NUL, ESC} THEN 0 ELSE IF ch = WIDE THEN 2 ELSE 1

RECURSIVE StrWidth(_)
StrWidth(s) == IF s = <<>> THEN 0 ELSE CharWidth(Head(s)) + StrWidth(Tail(s))

\* &s[from..to] with 0-based byte offsets, for 0 <= from <= to <= Len(s).
Slice(s, from, to) == SubSeq(s, from + 1, to)

Max(a, b) == IF a >= b THEN a ELSE b
Min(a, b) == IF a <= b THEN a ELSE b

\* unicode_linebreak::linebreaks: the offsets before which a line may or must
\* break, in order, ending with the mandatory break at the end of the text.
\* LB4/LB5 break after a line feed, LB6/LB7 never before a line feed or a
\* space, LB18 after spaces, LB28 never between letters; LB9/LB10 make the
\* escape character part of the letter before it, or a letter of its own.
BreakAt(s, i) ==
    IF s[i] = LF THEN "Mandatory"
    ELSE IF i = Len(s) THEN "Mandatory"
    ELSE IF s[i] = SPACE /\ s[i + 1] \in {LETTER, FINAL_M, ESC} THEN "Allowed"
    ELSE "None"

RECURSIVE LinebreaksFrom(_, _)
LinebreaksFrom(s, i) ==
    IF i > Len(s) THEN <<>>
    ELSE (IF BreakAt(s, i) = "None" THEN <<>>
          ELSE <<[idx |-> i, ty |-> BreakAt(s, i)]>>) \o LinebreaksFrom(s, i + 1)

linebreaks(s) == LinebreaksFrom(s, 1)

\* without_last: every item of the iterator but the last one.
without_last(items) ==
    IF items = <<>> THEN <<>> ELSE SubSeq(items, 1, Len(items) - 1)

\* ------------------------------------------------------------------ Cell
\* ANSI_ESC_RE matches at offset i (from 1): with the characters of the
\* model, the escape character directly followed by the final byte.
AnsiMatchAt(c, i) == i < Len(c) /\ c[i] = ESC /\ c[i + 1] = FINAL_M

\* ANSI_ESC_RE.split(content).collect(): the content without the matches,
\* taken from left to right.
RECURSIVE StripAnsi(_, _)
StripAnsi(c, i) ==
    IF i > Len(c) THEN <<>>
    ELSE IF AnsiMatchAt(c, i) THEN StripAnsi(c, i + 2)
    ELSE <<c[i]>> \o StripAnsi(c, i + 1)

\* Cell::content_for_layout: content_without_ansi_esc if update_without_ansi_esc
\* found a match, the content itself otherwise.
content_for_layout(c) ==
    IF \E i \in 1..Len(c) : AnsiMatchAt(c, i) THEN StripAnsi(c, 1) ELSE c

Alignments == {"Left", "Right", "Center"}

None == [some |-> FALSE, v |-> <<>>]
Some(v) == [some |-> TRUE, v |-> v]

NoPrev == -1

\* The one-character-per-line fallback: the list is cleared and refilled with
\* char_indices().skip(1) of the whole content.
OneCharPerLine(c) == [i \in 1..(Len(c) - 1) |-> i]

\* The inner loop of layout, entered when the first break opportunity of the
\* remaining text is already too wide.  It walks s0.char_indices() (j) of the
\* text s0 = c[p0..] it was entered with, while s = c[st.p..] is re-sliced.
RECURSIVE LayoutChars(_, _, _, _, _)
LayoutChars(c, cw, p0, j, st) ==
    IF j >= Len(c) - p0 THEN [st EXCEPT !.panic = "unreachable"]
    ELSE IF j > Len(c) - st.p THEN [st EXCEPT !.panic = "index"]
    ELSE IF StrWidth(Slice(c, st.p, st.p + j)) > cw THEN
        IF st.prev # NoPrev THEN
            IF st.prev > Len(c) - st.p
            THEN [st EXCEPT !.ln = Append(@, st.prev), !.offset = @ + st.prev,
                            !.panic = "index"]
            ELSE LayoutChars(c, cw, p0, j + 1,
                     [st EXCEPT !.ln = Append(@, st.prev), !.offset = @ + st.prev,
                                !.p = @ + st.prev, !.prev = NoPrev])
        ELSE [st EXCEPT !.ln = OneCharPerLine(c)]
    ELSE LayoutChars(c, cw, p0, j + 1, [st EXCEPT !.prev = j])

\* The outer loop of layout over without_last(linebreaks(content)).  s is
\* c[st.p..]; offset, prev and the pushed positions are the code's own values.
RECURSIVE LayoutBreaks(_, _, _, _, _)
LayoutBreaks(c, cw, bs, i, st) ==
    IF i > Len(bs) THEN st
    ELSE LET ch_idx == bs[i].idx IN
        \* s[..ch_idx - offset]: the subtraction underflows (a panic in a debug
        \* build, a wrapped index that the slice rejects in a release build) or
        \* the index lies past the end of s
        IF ch_idx < st.offset \/ ch_idx - st.offset > Len(c) - st.p
        THEN [st EXCEPT !.panic = "index"]
        ELSE IF StrWidth(Slice(c, st.p, st.p + ch_idx - st.offset)) > cw THEN
            IF st.prev # NoPrev THEN
                IF st.prev > Len(c) - st.p
                THEN [st EXCEPT !.ln = Append(@, st.prev), !.offset = @ + st.prev,
                                !.panic = "index"]
                ELSE LayoutBreaks(c, cw, bs, i + 1,
                         [st EXCEPT !.ln = Append(@, st.prev), !.offset = @ + st.prev,
                                    !.p = @ + st.prev, !.prev = NoPrev])
            ELSE LayoutChars(c, cw, st.p, 0, st)
        ELSE IF bs[i].ty = "Mandatory" THEN
            IF ch_idx > Len(c) - st.p
            THEN [st EXCEPT !.ln = Append(@, ch_idx), !.offset = @ + ch_idx,
                            !.panic = "index"]
            ELSE LayoutBreaks(c, cw, bs, i + 1,
                     [st EXCEPT !.ln = Append(@, ch_idx), !.offset = @ + ch_idx,
                                !.p = @ + ch_idx, !.prev = NoPrev])
        ELSE LayoutBreaks(c, cw, bs, i + 1, [st EXCEPT !.prev = ch_idx])

\* Cell::layout after the width check: the line starts it leaves in the cache
\* and the panic it ends with, if any.
LayoutNewlines(c, content_width) ==
    LayoutBreaks(c, content_width, without_last(linebreaks(c)), 1,
                 [ln |-> <<0>>, p |-> 0, offset |-> 0, prev |-> NoPrev,
                  panic |-> "none"])

TooSmall(pad, width) == width < 1 \/ (pad /\ width < 3)

\* ContentWidth adding the padding to the width, wrapping round at usize::MAX.
ContentWidth_wrapping(pad, width) ==
    IF ~pad THEN width
    ELSE IF width >= USIZE_MAX - 1 THEN width - (USIZE_MAX - 1) ELSE width + 2

ContentWidth(pad, width) == IF pad THEN width - 2 ELSE width

\* Cell::min_width
RECURSIVE MaxGap(_, _)
MaxGap(c, points) ==
    IF Len(points) < 2 THEN 0
    ELSE Max(StrWidth(Slice(c, points[1], points[2])), MaxGap(c, Tail(points)))

BreakPoints(c, only_mandatory) ==
    LET bs == linebreaks(c)
        kept == SelectSeq(bs, LAMBDA b : ~only_mandatory \/ b.ty = "Mandatory")
    IN <<0>> \o [k \in 1..Len(kept) |-> kept[k].idx] \o <<Len(c)>>

\* min_width with every break opportunity considered, whatever the flag.
min_width_all_breaks(c, pad, only_mandatory) ==
    MaxGap(c, BreakPoints(c, FALSE)) + (IF pad THEN 2 ELSE 0)

min_width(c, pad, only_mandatory) ==
    MaxGap(c, BreakPoints(c, only_mandatory)) + (IF pad THEN 2 ELSE 0)

\* Cell::get_padding: <<front, back>>, defined when width >= line_width + 2.
get_padding(align, width, line_width) ==
    LET gap == width - line_width - 2 IN
    CASE align = "Left" -> <<0, gap>>
      [] align = "Center" -> <<gap \div 2, gap - gap \div 2>>
      [] align = "Right" -> <<gap, 0>>

edge_char(pad) == IF pad THEN SPACE ELSE NUL

Spaces(n) == [i \in 1..n |-> SPACE]

\* The slice render_line takes from the content for line_idx: ok is FALSE when
\* the slice bounds are rejected.
LineOf(c, newlines, line_idx) ==
    IF line_idx + 1 > Len(newlines) THEN [ok |-> TRUE, line |-> <<>>]
    ELSE LET start_idx == newlines[line_idx + 1]
             end_idx == IF line_idx + 2 <= Len(newlines)
                        THEN newlines[line_idx + 2] ELSE Len(c)
         IN IF start_idx <= end_idx /\ end_idx <= Len(c)
            THEN [ok |-> TRUE, line |-> Slice(c, start_idx, end_idx)]
            ELSE [ok |-> FALSE, line |-> <<>>]

\* ------------------------------------------------------------------ state
VARIABLES
    \* a Cell (src/src/cell.rs)
    content,          \* Cell::content
    col_span,         \* Cell::col_span
    alignment,        \* Cell::alignment
    pad_content,      \* Cell::pad_content
    layout_newlines,  \* Cell::layout_newlines, the cached line starts
    laid_width,       \* the width of the last completed layout call, -1 before
    call,             \* the last call on the cell and how it ended
    \* a border junction (src/src/row.rs)
    junction,         \* the Borders value, the style and the glyph joiner returned
    \* a Table (src/src/lib.rs)
    rows,               \* Table::rows
    max_column_width,   \* Table::max_column_width
    max_column_widths,  \* Table::max_column_widths
    has_separate_rows,  \* Table::has_separate_rows
    has_top_border,     \* Table::has_top_border
    has_bottom_border,  \* Table::has_bottom_border
    tcall,              \* the last call on the table and what it returned
    \* the fixed-width column solver
    fixed,            \* its inputs and its result
    \* a Row of Cells and the row above it (src/src/row.rs)
    self_row,         \* the Row: its cells (with their layout caches) and has_separator
    prev_row,         \* the Row above it
    row_laid,         \* the widths the last Row::layout passed to the cells' layout
    rcall,            \* the last call on the row and what it wrote
    \* the serializer of a row (src/src/ser.rs)
    ser               \* the value serialize_row was given, Serializer::row and
                      \* Serializer::level when it returned

cellVars == <<content, col_span, alignment, pad_content, layout_newlines,
              laid_width, call>>

tableVars == <<rows, max_column_width, max_column_widths, has_separate_rows,
               has_top_border, has_bottom_border, tcall>>

rowVars == <<self_row, prev_row, row_laid, rcall>>

vars == <<cellVars, junction, tableVars, fixed, rowVars, ser>>

NoCall == [op |-> "new", width |-> -1, line_idx |-> -1, panic |-> "none",
           ret |-> -1, written |-> <<>>, only_mandatory |-> FALSE]

Running == call.panic = "none"

\* Cell::from followed by the with_padding / with_alignment builders.
CellInit(contents, aligns, pads) ==
    /\ content \in contents
    /\ col_span = 1
    /\ alignment \in aligns
    /\ pad_content \in pads
    /\ layout_newlines = None
    /\ laid_width = -1
    /\ call = NoCall

\* Cell::set_content (with_content delegates to it).
set_content(c) ==
    /\ Running
    /\ content' = c
    /\ call' = [NoCall EXCEPT !.op = "set_content"]
    /\ UNCHANGED <<col_span, alignment, pad_content, layout_newlines, laid_width>>

\* Cell::set_col_span (with_col_span delegates to it).
set_col_span(n) ==
    /\ Running
    /\ IF n > 0
       THEN /\ col_span' = n
            /\ layout_newlines' = None
            /\ call' = [NoCall EXCEPT !.op = "set_col_span"]
       ELSE /\ call' = [NoCall EXCEPT !.op = "set_col_span", !.panic = "col_span_0"]
            /\ UNCHANGED <<col_span, layout_newlines>>
    /\ UNCHANGED <<content, alignment, pad_content, laid_width>>

\* Cell::set_alignment (with_alignment delegates to it).
set_alignment(a) ==
    /\ Running
    /\ alignment' = a
    /\ layout_newlines' = None
    /\ call' = [NoCall EXCEPT !.op = "set_alignment"]
    /\ UNCHANGED <<content, col_span, pad_content, laid_width>>

\* Cell::set_padding (with_padding delegates to it).
set_padding(p) ==
    /\ Running
    /\ pad_content' = p
    /\ layout_newlines' = None
    /\ call' = [NoCall EXCEPT !.op = "set_padding"]
    /\ UNCHANGED <<content, col_span, alignment, laid_width>>

\* layout without ln.clear(): the line starts are pushed after those the
\* cache already holds.
layout_keeps_cache(width) ==
    /\ Running
    /\ IF TooSmall(pad_content, width)
       THEN /\ call' = [NoCall EXCEPT !.op = "layout", !.width = width,
                                      !.panic = "too_small"]
            /\ UNCHANGED <<layout_newlines, laid_width>>
       ELSE LET r == LayoutNewlines(content_for_layout(content),
                                    ContentWidth(pad_content, width))
                ln == (IF layout_newlines = None THEN <<>> ELSE layout_newlines.v)
                      \o r.ln
            IN
            /\ layout_newlines' = Some(ln)
            /\ laid_width' = IF r.panic = "none" THEN width ELSE laid_width
            /\ call' = [NoCall EXCEPT !.op = "layout", !.width = width,
                                      !.panic = r.panic,
                                      !.ret = IF r.panic = "none" THEN Len(ln) ELSE -1]
    /\ UNCHANGED <<content, col_span, alignment, pad_content>>

\* Cell::layout(Some(width)), or layout(None) when width is USIZE_MAX.
layout(width) ==
    /\ Running
    /\ IF TooSmall(pad_content, width)
       THEN /\ call' = [NoCall EXCEPT !.op = "layout", !.width = width,
                                      !.panic = "too_small"]
            /\ UNCHANGED <<layout_newlines, laid_width>>
       ELSE LET r == LayoutNewlines(content_for_layout(content),
                                    ContentWidth(pad_content, width)) IN
            /\ layout_newlines' = Some(r.ln)
            /\ laid_width' = IF r.panic = "none" THEN width ELSE laid_width
            /\ call' = [NoCall EXCEPT !.op = "layout", !.width = width,
                                      !.panic = r.panic,
                                      !.ret = IF r.panic = "none" THEN Len(r.ln) ELSE -1]
    /\ UNCHANGED <<content, col_span, alignment, pad_content>>

\* Cell::min_width with only_mandatory: the minimum width of the content
\* without its ANSI escape sequences.
min_width_call(only_mandatory) ==
    /\ Running
    /\ call' = [NoCall EXCEPT
                   !.op = "min_width", !.only_mandatory = only_mandatory,
                   !.ret = min_width(content_for_layout(content), pad_content,
                                     only_mandatory)]
    /\ UNCHANGED <<content, col_span, alignment, pad_content, layout_newlines,
                   laid_width>>

\* What render_line writes, or the panic it ends with.
RenderLine(c, newlines, align, pad, line_idx, width) ==
    IF ~newlines.some THEN [panic |-> "missed_layout", written |-> <<>>]
    ELSE LET l == LineOf(c, newlines.v, line_idx) IN
        IF ~l.ok THEN [panic |-> "index", written |-> <<>>]
        ELSE IF ~(width >= StrWidth(l.line) + 2)
        THEN [panic |-> "assertion", written |-> <<>>]
        ELSE LET pd == get_padding(align, width, StrWidth(l.line)) IN
            [panic |-> "none",
             written |-> <<edge_char(pad)>> \o Spaces(pd[1]) \o l.line
                         \o Spaces(pd[2]) \o <<edge_char(pad)>>]

\* Cell::render_line(line_idx, width, f)
render_line(line_idx, width) ==
    /\ Running
    /\ LET r == RenderLine(content, layout_newlines, alignment, pad_content,
                           line_idx, width) IN
       call' = [NoCall EXCEPT !.op = "render_line", !.width = width,
                              !.line_idx = line_idx, !.panic = r.panic,
                              !.written = r.written]
    /\ UNCHANGED <<content, col_span, alignment, pad_content, layout_newlines,
                   laid_width>>

\* ------------------------------------------------------------------ style
\* The TableStyle presets; a glyph is written as its code point.
SIMPLE ==
    [top_left_corner |-> "+",
     top_right_corner |-> "+",
     bottom_left_corner |-> "+",
     bottom_right_corner |-> "+",
     outer_left_vertical |-> "+",
     outer_right_vertical |-> "+",
     outer_bottom_horizontal |-> "+",
     outer_top_horizontal |-> "+",
     intersection |-> "+",
     vertical |-> "|",
     horizontal |-> "-"]

EXTENDED ==
    [top_left_corner |-> "U+2554",
     top_right_corner |-> "U+2557",
     bottom_left_corner |-> "U+255A",
     bottom_right_corner |-> "U+255D",
     outer_left_vertical |-> "U+2560",
     outer_right_vertical |-> "U+2563",
     outer_bottom_horizontal |-> "U+2569",
     outer_top_horizontal |-> "U+2566",
     intersection |-> "U+256C",
     vertical |-> "U+2551",
     horizontal |-> "U+2550"]

THIN ==
    [top_left_corner |-> "U+250C",
     top_right_corner |-> "U+2510",
     bottom_left_corner |-> "U+2514",
     bottom_right_corner |-> "U+2518",
     outer_left_vertical |-> "U+251C",
     outer_right_vertical |-> "U+2524",
     outer_bottom_horizontal |-> "U+2534",
     outer_top_horizontal |-> "U+252C",
     intersection |-> "U+253C",
     vertical |-> "U+2502",
     horizontal |-> "U+2500"]

ROUNDED ==
    [top_left_corner |-> "U+256D",
     top_right_corner |-> "U+256E",
     bottom_left_corner |-> "U+2570",
     bottom_right_corner |-> "U+256F",
     outer_left_vertical |-> "U+251C",
     outer_right_vertical |-> "U+2524",
     outer_bottom_horizontal |-> "U+2534",
     outer_top_horizontal |-> "U+252C",
     intersection |-> "U+253C",
     vertical |-> "U+2502",
     horizontal |-> "U+2500"]

ELEGANT ==
    [top_left_corner |-> "U+2554",
     top_right_corner |-> "U+2557",
     bottom_left_corner |-> "U+255A",
     bottom_right_corner |-> "U+255D",
     outer_left_vertical |-> "U+2560",
     outer_right_vertical |-> "U+2563",
     outer_bottom_horizontal |-> "U+2569",
     outer_top_horizontal |-> "U+2566",
     intersection |-> "U+253C",
     vertical |-> "U+2502",
     horizontal |-> "U+2500"]

BLANK ==
    [top_left_corner |-> "U+0000",
     top_right_corner |-> "U+0000",
     bottom_left_corner |-> "U+0000",
     bottom_right_corner |-> "U+0000",
     outer_left_vertical |-> "U+0000",
     outer_right_vertical |-> "U+0000",
     outer_bottom_horizontal |-> "U+0000",
     outer_top_horizontal |-> "U+0000",
     intersection |-> "U+0000",
     vertical |-> "U+0000",
     horizontal |-> "U+0000"]

EMPTY ==
    [top_left_corner |-> " ",
     top_right_corner |-> " ",
     bottom_left_corner |-> " ",
     bottom_right_corner |-> " ",
     outer_left_vertical |-> " ",
     outer_right_vertical |-> " ",
     outer_bottom_horizontal |-> " ",
     outer_top_horizontal |-> " ",
     intersection |-> " ",
     vertical |-> " ",
     horizontal |-> " "]

Styles == {SIMPLE, EXTENDED, THIN, ROUNDED, ELEGANT, BLANK, EMPTY}

\* ------------------------------------------------------------------ Borders
BorderTy == {"Empty", "Middle", "End"}

\* joiner with the arms for a cell boundary below and above exchanged.
joiner_tees_swapped(style, above, below, final_end) ==
    CASE above = "Empty" /\ below = "Empty" -> "unreachable"
      [] \/ (above = "Empty" /\ below = "Middle")
         \/ (above = "Middle" /\ below = "Empty")
         \/ (above = "Middle" /\ below = "Middle") -> style.horizontal
      [] above \in {"Empty", "Middle"} /\ below = "End" ->
            IF final_end THEN style.bottom_right_corner
            ELSE style.outer_bottom_horizontal
      [] above = "End" /\ below \in {"Empty", "Middle"} ->
            IF final_end THEN style.top_right_corner
            ELSE style.outer_top_horizontal
      [] above = "End" /\ below = "End" ->
            IF final_end THEN style.outer_right_vertical
            ELSE style.intersection

\* Borders::joiner: the glyph for the junction, "unreachable" for its
\* unreachable!() arm.
joiner(style, above, below, final_end) ==
    CASE above = "Empty" /\ below = "Empty" -> "unreachable"
      [] \/ (above = "Empty" /\ below = "Middle")
         \/ (above = "Middle" /\ below = "Empty")
         \/ (above = "Middle" /\ below = "Middle") -> style.horizontal
      [] above \in {"Empty", "Middle"} /\ below = "End" ->
            IF final_end THEN style.top_right_corner
            ELSE style.outer_top_horizontal
      [] above = "End" /\ below \in {"Empty", "Middle"} ->
            IF final_end THEN style.bottom_right_corner
            ELSE style.outer_bottom_horizontal
      [] above = "End" /\ below = "End" ->
            IF final_end THEN style.outer_right_vertical
            ELSE style.intersection

NoJunction == [above |-> "Empty", below |-> "Empty", final_end |-> FALSE,
               style |-> SIMPLE, glyph |-> "", called |-> FALSE]

\* A Borders value is built for a style and a position.
JunctionInit ==
    junction \in [above : BorderTy, below : BorderTy, final_end : BOOLEAN,
                  style : Styles, glyph : {""}, called : {FALSE}]

\* borders.joiner(style, final_end)
joiner_call ==
    /\ ~junction.called
    /\ junction' = [junction EXCEPT
           !.glyph = joiner(junction.style, junction.above, junction.below,
                            junction.final_end),
           !.called = TRUE]

\* ------------------------------------------------------------------ TableCell
\* TableCell::wrapped_content, one step per character of data.  No character
\* of the alphabet belongs to an ANSI escape sequence, so none is hidden.
RECURSIVE WrapChars(_, _, _, _, _)
WrapChars(data, k, pad_char, limit, st) ==
    IF k > Len(data) THEN Append(st.res, Append(st.buf, pad_char))
    ELSE LET c == data[k] IN
        IF StrWidth(st.buf) >= limit \/ c = LF THEN
            LET res == Append(st.res, Append(st.buf, pad_char)) IN
            IF c = LF
            THEN WrapChars(data, k + 1, pad_char, limit,
                           [res |-> res, buf |-> <<pad_char>>])
            ELSE WrapChars(data, k + 1, pad_char, limit,
                           [res |-> res, buf |-> <<pad_char, c>>])
        ELSE WrapChars(data, k + 1, pad_char, limit,
                       [st EXCEPT !.buf = Append(@, c)])

\* pad_char.width().unwrap_or(1): 1 for the space, 0 for NUL.
wrapped_content(cell, width) ==
    LET pad_char == IF cell.pad_content THEN SPACE ELSE NUL IN
    WrapChars(cell.data, 1, pad_char, width - CharWidth(pad_char),
              [res |-> <<>>, buf |-> <<pad_char>>])

RECURSIVE MaxLineWidth(_)
MaxLineWidth(lines) ==
    IF lines = <<>> THEN 0
    ELSE Max(StrWidth(Head(lines)), MaxLineWidth(Tail(lines)))

\* TableCell::width
table_cell_width(cell) == MaxLineWidth(wrapped_content(cell, USIZE_MAX))

\* c.width().unwrap_or(1): a control character counts 1 here.
TableCharWidth(ch) == IF ch \in {LF, ESC} THEN 1 ELSE CharWidth(ch)

RECURSIVE MaxCharWidth(_)
MaxCharWidth(data) ==
    IF data = <<>> THEN 0
    ELSE Max(TableCharWidth(Head(data)), MaxCharWidth(Tail(data)))

\* TableCell::min_width: the widest character, and the padding.
table_cell_min_width(cell) ==
    MaxCharWidth(cell.data) + (IF cell.pad_content THEN 2 ELSE 0)

\* TableCell::split_width() as usize: the f32 quotient width / col_span,
\* truncated by the cast where calculate_max_column_widths reads it.
split_width_as_usize(cell) ==
    IF cell.col_span = 0
    THEN (IF table_cell_width(cell) = 0 THEN 0 ELSE USIZE_MAX)
    ELSE table_cell_width(cell) \div cell.col_span

TableCellOf(data, span, align, pad) ==
    [data |-> data, col_span |-> span, alignment |-> align, pad_content |-> pad]

\* TableCell::set_col_span (with_col_span delegates to it): no check.
table_cell_set_col_span(cell, n) == [cell EXCEPT !.col_span = n]

\* ------------------------------------------------------------------ Table
RECURSIVE SumSpans(_)
SumSpans(cells) ==
    IF cells = <<>> THEN 0 ELSE Head(cells).col_span + SumSpans(Tail(cells))

\* Row::num_columns
num_columns(row) == SumSpans(row.cells)

\* Row::split_column_widths: for every column a cell spans, the preferred
\* width of the cell split over its span and the split minimum width, whose
\* remainder goes to the last column of the span.
RECURSIVE split_column_widths(_)
split_column_widths(cells) ==
    IF cells = <<>> THEN <<>>
    ELSE LET cell == Head(cells)
             n == cell.col_span
             m == table_cell_min_width(cell)
         IN [i \in 1..n |->
                [pref |-> split_width_as_usize(cell),
                 min |-> m \div n + (IF m % n > 0 /\ i = n THEN 1 ELSE 0)]]
            \o split_column_widths(Tail(cells))

\* MaxWidthFor without the look-up of the column's own maximum width.
MaxWidthFor_table_wide(i, mcw, mcws) == mcw

\* self.max_column_widths.get(&i).unwrap_or(&self.max_column_width)
MaxWidthFor(i, mcw, mcws) == IF i \in DOMAIN mcws THEN mcws[i] ELSE mcw

\* The first loop of calculate_max_column_widths over the columns i of a row;
\* column i is entry i + 1 of the vectors.
RECURSIVE FirstPassColumns(_, _, _, _, _)
FirstPassColumns(cw, i, st, mcw, mcws) ==
    IF i >= Len(cw) THEN st
    ELSE LET min_w == Max(st.min_widths[i + 1], cw[i + 1].min)
             max_width == Max(min_w, MaxWidthFor(i, mcw, mcws))
             max_w == Min(max_width, Max(st.max_widths[i + 1], cw[i + 1].pref))
         IN FirstPassColumns(cw, i + 1,
                [min_widths |-> [st.min_widths EXCEPT ![i + 1] = min_w],
                 max_widths |-> [st.max_widths EXCEPT ![i + 1] = max_w]],
                mcw, mcws)

RECURSIVE FirstPassRows(_, _, _, _, _)
FirstPassRows(rs, r, st, mcw, mcws) ==
    IF r > Len(rs) THEN st
    ELSE FirstPassRows(rs, r + 1,
             FirstPassColumns(split_column_widths(rs[r].cells), 0, st, mcw, mcws),
             mcw, mcws)

RECURSIVE MaxColumns(_)
MaxColumns(rs) ==
    IF rs = <<>> THEN 0 ELSE Max(num_columns(Head(rs)), MaxColumns(Tail(rs)))

\* FirstPass with its loop over the rows starting at the second row.
FirstPassSkipsFirstRow(rs, mcw, mcws) ==
    LET zeros == [i \in 1..MaxColumns(rs) |-> 0] IN
    FirstPassRows(rs, 2, [min_widths |-> zeros, max_widths |-> zeros],
                  mcw, mcws).max_widths

FirstPass(rs, mcw, mcws) ==
    LET zeros == [i \in 1..MaxColumns(rs) |-> 0] IN
    FirstPassRows(rs, 1, [min_widths |-> zeros, max_widths |-> zeros],
                  mcw, mcws).max_widths

RECURSIVE SumRange(_, _, _)
SumRange(ws, from, to) ==
    IF from >= to THEN 0 ELSE ws[from + 1] + SumRange(ws, from + 1, to)

\* The second loop of calculate_max_column_widths over the cells of a row:
\* a centre-aligned cell whose columns add up to an even width other than its
\* own widens the column at col_index by one.
RECURSIVE CenterCells(_, _, _, _, _, _)
CenterCells(cells, k, col_index, st, mcw, mcws) ==
    IF k > Len(cells) \/ st.panic # "none" THEN st
    ELSE LET cell == cells[k]
             next_index == IF cell.col_span > 1
                           THEN col_index + cell.col_span - 1
                           ELSE col_index + 1
         IN IF cell.col_span > 0 /\ col_index + cell.col_span > Len(st.w)
            THEN [st EXCEPT !.panic = "index"]
            ELSE LET total_col_width ==
                         SumRange(st.w, col_index, col_index + cell.col_span)
                     odd_center == /\ table_cell_width(cell) # total_col_width
                                   /\ cell.alignment = "Center"
                                   /\ total_col_width % 2 = 0
                 IN IF odd_center /\ col_index >= Len(st.w)
                    THEN [st EXCEPT !.panic = "index"]
                    ELSE IF odd_center
                            /\ st.w[col_index + 1] < MaxWidthFor(col_index, mcw, mcws)
                    THEN CenterCells(cells, k + 1, next_index,
                             [st EXCEPT !.w[col_index + 1] = @ + 1], mcw, mcws)
                    ELSE CenterCells(cells, k + 1, next_index, st, mcw, mcws)

RECURSIVE CenterRows(_, _, _, _, _)
CenterRows(rs, r, st, mcw, mcws) ==
    IF r > Len(rs) THEN st
    ELSE CenterRows(rs, r + 1, CenterCells(rs[r].cells, 1, 0, st, mcw, mcws),
                    mcw, mcws)

CenterPass(rs, w, mcw, mcws) ==
    CenterRows(rs, 1, [w |-> w, panic |-> "none"], mcw, mcws)

\* Table::calculate_max_column_widths
calculate_max_column_widths(rs, mcw, mcws) ==
    CenterPass(rs, FirstPass(rs, mcw, mcws), mcw, mcws)

\* The lines Display::fmt writes.  What gen_separator and format put in a
\* line is not modelled: a line is named by its kind, its row and the
\* RowPosition its separator was generated for.
SeparatorLine(i, pos) == [kind |-> "separator", row |-> i, pos |-> pos]
ContentLines(i) == [kind |-> "content", row |-> i, pos |-> "-"]

RECURSIVE FmtRows(_, _, _, _)
FmtRows(rs, i, top, separate) ==
    IF i >= Len(rs) THEN <<>>
    ELSE LET row_pos == IF i = 0 THEN "First" ELSE "Mid" IN
         (IF rs[i + 1].has_separator
             /\ ((i = 0 /\ top) \/ (i # 0 /\ separate))
          THEN <<SeparatorLine(i, row_pos)>> ELSE <<>>)
         \o <<ContentLines(i)>>
         \o FmtRows(rs, i + 1, top, separate)

\* fmt with the bottom border drawn only when the last row has a separator.
fmt_bottom_by_row(rs, top, separate, bottom) ==
    IF rs # <<>>
    THEN FmtRows(rs, 0, top, separate)
         \o (IF bottom /\ rs[Len(rs)].has_separator
             THEN <<SeparatorLine(Len(rs) - 1, "Last")>> ELSE <<>>)
    ELSE <<>>

\* impl fmt::Display for Table, after the column widths are calculated
fmt(rs, top, separate, bottom) ==
    IF rs # <<>>
    THEN FmtRows(rs, 0, top, separate)
         \o (IF bottom THEN <<SeparatorLine(Len(rs) - 1, "Last")>> ELSE <<>>)
    ELSE <<>>

NoTableCall == [op |-> "new", panic |-> "none", max_widths |-> <<>>, out |-> <<>>,
                width |-> -1]

TableRunning == tcall.panic = "none"

\* Table::new
TableInit ==
    /\ rows = <<>>
    /\ max_column_width = USIZE_MAX
    /\ max_column_widths = <<>>
    /\ has_separate_rows = TRUE
    /\ has_top_border = TRUE
    /\ has_bottom_border = TRUE
    /\ tcall = NoTableCall

\* Table::add_row (with_row delegates to it)
add_row(row) ==
    /\ TableRunning
    /\ rows' = Append(rows, row)
    /\ tcall' = [NoTableCall EXCEPT !.op = "add_row"]
    /\ UNCHANGED <<max_column_width, max_column_widths, has_separate_rows,
                   has_top_border, has_bottom_border>>

\* Table::set_max_column_width (with_max_column_width delegates to it)
set_max_column_width(w) ==
    /\ TableRunning
    /\ max_column_width' = w
    /\ tcall' = [NoTableCall EXCEPT !.op = "set_max_column_width"]
    /\ UNCHANGED <<rows, max_column_widths, has_separate_rows, has_top_border,
                   has_bottom_border>>

\* Table::set_max_width_for_column (with_max_width_for_column delegates to
\* it): the map gets, or replaces, the entry of the column.
set_max_width_for_column(column_index, max_width) ==
    /\ TableRunning
    /\ max_column_widths' =
           [j \in DOMAIN max_column_widths \cup {column_index} |->
               IF j = column_index THEN max_width ELSE max_column_widths[j]]
    /\ tcall' = [NoTableCall EXCEPT !.op = "set_max_width_for_column"]
    /\ UNCHANGED <<rows, max_column_width, has_separate_rows, has_top_border,
                   has_bottom_border>>

\* cell.wrapped_content(width) on the only cell of a one-row table.
table_cell_wrapped_content(width) ==
    /\ TableRunning
    /\ Len(rows) = 1 /\ Len(rows[1].cells) = 1
    /\ tcall' = [NoTableCall EXCEPT !.op = "wrapped_content", !.width = width,
                    !.out = wrapped_content(rows[1].cells[1], width)]
    /\ UNCHANGED <<rows, max_column_width, max_column_widths, has_separate_rows,
                   has_top_border, has_bottom_border>>

\* Table::set_separate_rows (with_separate_rows delegates to it)
set_separate_rows(b) ==
    /\ TableRunning
    /\ has_separate_rows' = b
    /\ tcall' = [NoTableCall EXCEPT !.op = "set_separate_rows"]
    /\ UNCHANGED <<rows, max_column_width, max_column_widths, has_top_border,
                   has_bottom_border>>

\* an assignment to the public field has_top_border
set_has_top_border(b) ==
    /\ TableRunning
    /\ has_top_border' = b
    /\ tcall' = [NoTableCall EXCEPT !.op = "set_has_top_border"]
    /\ UNCHANGED <<rows, max_column_width, max_column_widths, has_separate_rows,
                   has_bottom_border>>

\* an assignment to the public field has_bottom_border
set_has_bottom_border(b) ==
    /\ TableRunning
    /\ has_bottom_border' = b
    /\ tcall' = [NoTableCall EXCEPT !.op = "set_has_bottom_border"]
    /\ UNCHANGED <<rows, max_column_width, max_column_widths, has_separate_rows,
                   has_top_border>>

\* Table::render, that is Display::fmt into a String
render ==
    /\ TableRunning
    /\ LET mw == calculate_max_column_widths(rows, max_column_width,
                                             max_column_widths) IN
       tcall' = [op |-> "render", panic |-> mw.panic, max_widths |-> mw.w,
                 width |-> -1,
                 out |-> IF mw.panic = "none"
                         THEN fmt(rows, has_top_border, has_separate_rows,
                                  has_bottom_border)
                         ELSE <<>>]
    /\ UNCHANGED <<rows, max_column_width, max_column_widths, has_separate_rows,
                   has_top_border, has_bottom_border>>

\* ------------------------------------------------------------------ fixed width
\* fixed_width_layout with every column, the last too, at the even share.
fixed_width_layout_even(total_width, columns, border_width) ==
    IF total_width < border_width * (columns + 1)
    THEN [ok |-> FALSE, widths |-> <<>>]
    ELSE LET per_column == (total_width - border_width) \div columns - border_width
         IN [ok |-> TRUE, widths |-> [i \in 1..columns |-> per_column]]

\* fixed_width_layout rejecting a total width equal to the bound as well.
fixed_width_layout_strict(total_width, columns, border_width) ==
    IF total_width <= border_width * (columns + 1)
    THEN [ok |-> FALSE, widths |-> <<>>]
    ELSE LET per_column == (total_width - border_width) \div columns - border_width
         IN [ok |-> TRUE,
             widths |-> [i \in 1..columns |->
                            IF i < columns THEN per_column
                            ELSE total_width - border_width * (columns + 1)
                                 - per_column * (columns - 1)]]

\* The column widths for a fixed total width: (total_width - border_width)
\* is divided by the number of columns and border_width subtracted; every
\* column but the last gets that, the last one what is left of total_width
\* after all borders.  A total_width below border_width * (columns + 1) is
\* rejected.
fixed_width_layout(total_width, columns, border_width) ==
    IF total_width < border_width * (columns + 1)
    THEN [ok |-> FALSE, widths |-> <<>>]
    ELSE LET per_column == (total_width - border_width) \div columns - border_width
         IN [ok |-> TRUE,
             widths |-> [i \in 1..columns |->
                            IF i < columns THEN per_column
                            ELSE total_width - border_width * (columns + 1)
                                 - per_column * (columns - 1)]]

NoFixed == [total_width |-> 0, columns |-> 0, border_width |-> 0,
            called |-> FALSE, ok |-> FALSE, widths |-> <<>>]

\* the solver is called for a total width, a column count and a border width
fixed_width_call(total_width, columns, border_width) ==
    /\ ~fixed.called
    /\ LET r == fixed_width_layout(total_width, columns, border_width) IN
       fixed' = [total_width |-> total_width, columns |-> columns,
                 border_width |-> border_width, called |-> TRUE,
                 ok |-> r.ok, widths |-> r.widths]

\* ------------------------------------------------------------------ Row
\* TableStyle::border_width: the display width of the vertical glyph, which
\* is 0 for the NUL of BLANK and 1 for the other presets.
border_width(style) == IF style.vertical = "U+0000" THEN 0 ELSE 1

\* A Cell of a Row: Cell::from with the builders, the cache empty.
RowCell(c, span, align, pad) ==
    [content |-> c, col_span |-> span, alignment |-> align, pad_content |-> pad,
     layout_newlines |-> None]

\* Row::columns
columns(r) == SumSpans(r.cells)

\* Cell::width counting a border for every column of the span.
cell_width_border_per_column(cell, b, cell_widths) ==
    IF cell.col_span > Len(cell_widths)
    THEN [ok |-> FALSE, width |-> 0, rest |-> <<>>]
    ELSE [ok |-> TRUE,
          width |-> SumRange(cell_widths, 0, cell.col_span) + b * cell.col_span,
          rest |-> SubSeq(cell_widths, cell.col_span + 1, Len(cell_widths))]

\* Cell::width: the width of the cell and the widths of the cells after it;
\* ok is FALSE when the slices are out of range.
cell_width(cell, b, cell_widths) ==
    IF cell.col_span > Len(cell_widths)
    THEN [ok |-> FALSE, width |-> 0, rest |-> <<>>]
    ELSE [ok |-> TRUE,
          width |-> SumRange(cell_widths, 0, cell.col_span)
                    + b * Max(cell.col_span - 1, 0),
          rest |-> SubSeq(cell_widths, cell.col_span + 1, Len(cell_widths))]

\* Cell::layout(Some(width)) on a cell of a row: the cell with its cache
\* rebuilt, the line count and the panic, if any.
CellLayout(cell, width) ==
    IF TooSmall(cell.pad_content, width)
    THEN [cell |-> cell, ret |-> -1, panic |-> "too_small"]
    ELSE LET r == LayoutNewlines(content_for_layout(cell.content),
                                 ContentWidth(cell.pad_content, width))
         IN [cell |-> [cell EXCEPT !.layout_newlines = Some(r.ln)],
             ret |-> IF r.panic = "none" THEN Len(r.ln) ELSE -1,
             panic |-> r.panic]

\* The loop of Row::layout over the cells; idx is the first column of cell k.
RECURSIVE RowLayoutCells(_, _, _, _, _)
RowLayoutCells(k, idx, column_widths, b, st) ==
    IF k > Len(st.cells) \/ st.panic # "none" THEN st
    ELSE LET cell == st.cells[k] IN
        IF idx + cell.col_span > Len(column_widths)
        THEN [st EXCEPT !.panic = "index"]
        ELSE LET width == (cell.col_span + 1) * b
                          + SumRange(column_widths, idx, idx + cell.col_span)
                 r == CellLayout(cell, width)
             IN RowLayoutCells(k + 1, idx + cell.col_span, column_widths, b,
                    [cells |-> [st.cells EXCEPT ![k] = r.cell],
                     max_lines |-> IF r.panic = "none"
                                   THEN Max(st.max_lines, r.ret) ELSE st.max_lines,
                     widths |-> Append(st.widths, width),
                     panic |-> r.panic])

\* Row::layout
RowLayout(r, column_widths, b) ==
    RowLayoutCells(1, 0, column_widths, b,
        [cells |-> r.cells, max_lines |-> 0, widths |-> <<>>, panic |-> "none"])

\* Cell::width folded over the cells of a row, as the loop of
\* Row::render_content over the cells does: the width of every cell, and the
\* widths left after the last cell.
RECURSIVE CellWidths(_, _, _, _, _)
CellWidths(cells, k, b, widths, st) ==
    IF k > Len(cells) THEN [st EXCEPT !.rest = widths]
    ELSE LET cw == cell_width(cells[k], b, widths) IN
        IF ~cw.ok THEN [st EXCEPT !.panic = "index"]
        ELSE CellWidths(cells, k + 1, b, cw.rest,
                        [st EXCEPT !.widths = Append(@, cw.width)])

\* One line of Row::render_content: a vertical glyph before every cell, the
\* cell's line at the width Cell::width gives it, a vertical glyph at the end.
RECURSIVE RenderContentCells(_, _, _, _, _, _)
RenderContentCells(cells, k, widths, line_num, style, st) ==
    IF st.panic # "none" THEN st
    ELSE IF k > Len(cells)
    THEN [st EXCEPT !.line = Append(@, style.vertical)]
    ELSE LET cw == cell_width(cells[k], border_width(style), widths) IN
        IF ~cw.ok THEN [st EXCEPT !.panic = "index"]
        ELSE LET r == RenderLine(cells[k].content, cells[k].layout_newlines,
                                 cells[k].alignment, cells[k].pad_content,
                                 line_num, cw.width)
             IN RenderContentCells(cells, k + 1, cw.rest, line_num, style,
                    [line |-> Append(st.line, style.vertical) \o r.written,
                     widths |-> Append(st.widths, cw.width),
                     panic |-> r.panic])

\* Row::render_content: the lines written, the widths passed to render_line
\* for the last line, and the panic, if any.
RECURSIVE RenderContent(_, _, _, _, _, _)
RenderContent(r, column_widths, line_num, num_lines, style, st) ==
    IF line_num >= num_lines \/ st.panic # "none" THEN st
    ELSE LET l == RenderContentCells(r.cells, 1, column_widths, line_num, style,
                      [line |-> <<>>, widths |-> <<>>, panic |-> "none"])
         IN RenderContent(r, column_widths, line_num + 1, num_lines, style,
                [out |-> IF l.panic = "none" THEN Append(st.out, l.line) ELSE st.out,
                 widths |-> l.widths,
                 panic |-> l.panic])

\* IterJoins::next yielding End in the middle of a cell too.
JoinsNext_ends_only(cells, st) ==
    IF st.cols_remaining = 0 THEN [item |-> "Empty", st |-> st]
    ELSE IF st.cols_remaining = 1
    THEN [item |-> "End",
          st |-> IF st.k <= Len(cells)
                 THEN [k |-> st.k + 1, cols_remaining |-> cells[st.k].col_span]
                 ELSE [k |-> st.k, cols_remaining |-> 0]]
    ELSE [item |-> "End",
          st |-> [st EXCEPT !.cols_remaining = @ - 1]]

\* IterJoins::next: st.k is the next cell of inner, st.cols_remaining the
\* columns left of the current cell.
JoinsNext(cells, st) ==
    IF st.cols_remaining = 0 THEN [item |-> "Empty", st |-> st]
    ELSE IF st.cols_remaining = 1
    THEN [item |-> "End",
          st |-> IF st.k <= Len(cells)
                 THEN [k |-> st.k + 1, cols_remaining |-> cells[st.k].col_span]
                 ELSE [k |-> st.k, cols_remaining |-> 0]]
    ELSE [item |-> "Middle",
          st |-> [st EXCEPT !.cols_remaining = @ - 1]]

\* iter_joins starting in the middle of a cell.
JoinsStart_in_cell == [k |-> 1, cols_remaining |-> 2]

\* Row::iter_joins starts as if a cell had just ended.
JoinsStart == [k |-> 1, cols_remaining |-> 1]

\* The first n items of Row::iter_joins over the cells.
RECURSIVE JoinsTake(_, _, _)
JoinsTake(cells, st, n) ==
    IF n = 0 THEN <<>>
    ELSE LET x == JoinsNext(cells, st) IN
         <<x.item>> \o JoinsTake(cells, x.st, n - 1)

\* prev.iter_joins().zip(self.iter_joins()) mapped to Borders, up to the
\* first Borders::EMPTY (while_some).
RECURSIVE JunctionsFrom(_, _, _, _)
JunctionsFrom(prev_cells, cells, pst, cst) ==
    LET above == JoinsNext(prev_cells, pst)
        below == JoinsNext(cells, cst)
    IN IF above.item = "Empty" /\ below.item = "Empty" THEN <<>>
       ELSE <<[above |-> above.item, below |-> below.item]>>
            \o JunctionsFrom(prev_cells, cells, above.st, below.st)

\* iter_junctions without the end: it goes on for one pair of Empty borders.
iter_junctions_one_more(r, prev) ==
    JunctionsFrom(prev.cells, r.cells, JoinsStart, JoinsStart)
    \o <<[above |-> "Empty", below |-> "Empty"]>>

\* Row::iter_junctions
iter_junctions(r, prev) ==
    JunctionsFrom(prev.cells, r.cells, JoinsStart, JoinsStart)

\* The loop of Row::render_separator over the column widths zipped with the
\* junctions after the first: width horizontal glyphs, then the joiner, which
\* is the final one when the zip has nothing left.
RECURSIVE SeparatorItems(_, _, _, _, _)
SeparatorItems(cell_widths, js, k, style, st) ==
    IF k > Min(Len(cell_widths), Len(js)) \/ st.panic # "none" THEN st
    ELSE LET glyph == joiner(style, js[k].above, js[k].below,
                             k = Min(Len(cell_widths), Len(js)))
         IN SeparatorItems(cell_widths, js, k + 1, style,
                [line |-> st.line \o [i \in 1..cell_widths[k] |-> style.horizontal]
                          \o (IF glyph = "unreachable" THEN <<>> ELSE <<glyph>>),
                 joined |-> Append(st.joined, js[k]),
                 panic |-> IF glyph = "unreachable" THEN "unreachable" ELSE "none"])

\* Row::render_separator: the line written (none for a row without
\* separator), the borders passed to joiner, and the panic, if any.
RenderSeparator(r, prev, cell_widths, style) ==
    IF ~r.has_separator THEN [out |-> <<>>, joined |-> <<>>, panic |-> "none"]
    ELSE LET js == iter_junctions(r, prev)
             s == SeparatorItems(cell_widths, SubSeq(js, 2, Len(js)), 1, style,
                      [line |-> <<style.outer_left_vertical>>, joined |-> <<>>,
                       panic |-> "none"])
         IN [out |-> IF s.panic = "none" THEN <<s.line>> ELSE <<>>,
             joined |-> s.joined, panic |-> s.panic]

NoRowCall == [op |-> "new", column_widths |-> <<>>, style |-> SIMPLE,
              border_width |-> 0, num_lines |-> -1, panic |-> "none", ret |-> -1,
              cell_widths |-> <<>>, junctions |-> <<>>, joined |-> <<>>,
              out |-> <<>>, rest |-> <<>>, joins |-> <<>>]

RowRunning == rcall.panic = "none"

\* row.layout(column_widths, border_width)
row_layout(column_widths, b) ==
    /\ RowRunning
    /\ LET r == RowLayout(self_row, column_widths, b) IN
       /\ self_row' = [self_row EXCEPT !.cells = r.cells]
       /\ row_laid' = r.widths
       /\ rcall' = [NoRowCall EXCEPT !.op = "layout",
                       !.column_widths = column_widths, !.border_width = b,
                       !.panic = r.panic,
                       !.ret = IF r.panic = "none" THEN r.max_lines ELSE -1,
                       !.cell_widths = r.widths]
    /\ UNCHANGED prev_row

\* cell.width(border_width, widths) for every cell of the row in turn, each
\* call on the slice the call before returned.
row_cell_widths(column_widths, b) ==
    /\ RowRunning
    /\ LET r == CellWidths(self_row.cells, 1, b, column_widths,
                    [widths |-> <<>>, rest |-> <<>>, panic |-> "none"]) IN
       rcall' = [NoRowCall EXCEPT !.op = "width",
                    !.column_widths = column_widths, !.border_width = b,
                    !.panic = r.panic, !.cell_widths = r.widths,
                    !.rest = r.rest]
    /\ UNCHANGED <<self_row, prev_row, row_laid>>

\* row.iter_joins().take(n)
row_iter_joins(n) ==
    /\ RowRunning
    /\ rcall' = [NoRowCall EXCEPT !.op = "iter_joins", !.ret = n,
                    !.joins = JoinsTake(self_row.cells, JoinsStart, n)]
    /\ UNCHANGED <<self_row, prev_row, row_laid>>

\* row.render_content(column_widths, num_lines, style, f)
row_render_content(column_widths, num_lines, style) ==
    /\ RowRunning
    /\ LET r == RenderContent(self_row, column_widths, 0, num_lines, style,
                    [out |-> <<>>, widths |-> <<>>, panic |-> "none"]) IN
       rcall' = [NoRowCall EXCEPT !.op = "render_content",
                    !.column_widths = column_widths, !.style = style,
                    !.border_width = border_width(style),
                    !.num_lines = num_lines, !.panic = r.panic,
                    !.cell_widths = r.widths, !.out = r.out]
    /\ UNCHANGED <<self_row, prev_row, row_laid>>

\* row.render_separator(prev, cell_widths, style, f)
row_render_separator(cell_widths, style) ==
    /\ RowRunning
    /\ LET r == RenderSeparator(self_row, prev_row, cell_widths, style) IN
       rcall' = [NoRowCall EXCEPT !.op = "render_separator",
                    !.column_widths = cell_widths, !.style = style,
                    !.border_width = border_width(style), !.panic = r.panic,
                    !.junctions = iter_junctions(self_row, prev_row),
                    !.joined = r.joined, !.out = r.out]
    /\ UNCHANGED <<self_row, prev_row, row_laid>>

\* ------------------------------------------------------------------ ser
\* A value of the serde data model: kind is "i32", "str", "none", "some",
\* "seq", "tuple" or "struct"; text is what to_string gives a scalar, name the
\* name of a struct, items the elements (the content of a Some).  A string
\* is a sequence of pieces.
SerValue(kind, text, name, items) ==
    [kind |-> kind, text |-> text, name |-> name, items |-> items]

\* The bracket of serialize_seq, serialize_tuple and serialize_struct.
BracketOf(kind) ==
    CASE kind = "seq" -> "Square" [] kind = "tuple" -> "Round" [] OTHER -> "Curly"

\* BracketTy::start
BracketStart(ty) ==
    CASE ty = "Round" -> "(" [] ty = "Curly" -> "{" [] OTHER -> "["

\* BracketTy::end
BracketEnd(ty) ==
    CASE ty = "Round" -> ")" [] ty = "Curly" -> "}" [] OTHER -> "]"

\* The key serialize_field passes for element k: a struct has keys.
KeyOf(v, k) == IF v.kind = "struct" THEN Some("k") ELSE None

RECURSIVE JsonItems(_, _)
RECURSIVE Json(_)
\* serde_json::to_string
Json(v) ==
    CASE v.kind = "i32" -> <<v.text>>
      [] v.kind = "str" -> <<"\"", v.text, "\"">>
      [] v.kind = "none" -> <<"null">>
      [] v.kind = "some" -> Json(v.items[1])
      [] v.kind = "struct" -> <<"{">> \o JsonItems(v, 1) \o <<"}">>
      [] OTHER -> <<"[">> \o JsonItems(v, 1) \o <<"]">>

JsonItems(v, k) ==
    IF k > Len(v.items) THEN <<>>
    ELSE (IF k > 1 THEN <<",">> ELSE <<>>)
         \o (IF v.kind = "struct" THEN <<"\"k\"", ":">> ELSE <<>>)
         \o Json(v.items[k]) \o JsonItems(v, k + 1)

\* Serializer::serialize_string: one more cell in the row.
serialize_string(s, st) == [st EXCEPT !.row = Append(@, s)]

\* SerializerSeq::new
SerializerSeq_new(prefix, ty, st) ==
    [ty |-> ty,
     parent |-> [st EXCEPT !.level = @ + 1],
     output |-> IF prefix = "" THEN <<BracketStart(ty)>>
                ELSE <<prefix, " ", BracketStart(ty)>>]

\* SerializerSeq::end; level is a usize, so going below 0 is a panic.
SerializerSeq_end(seq) ==
    IF seq.parent.level = 0 THEN [seq.parent EXCEPT !.panic = "underflow"]
    ELSE LET parent == [seq.parent EXCEPT !.level = @ - 1] IN
         IF parent.level > 0
         THEN serialize_string(Append(seq.output, BracketEnd(seq.ty)), parent)
         ELSE parent

RECURSIVE Serialize(_, _)
RECURSIVE serialize_element(_, _, _)
RECURSIVE SerializeElements(_, _, _)
\* value.serialize(&mut serializer): the Serializer method of the kind of
\* the value.
Serialize(v, st) ==
    CASE v.kind \in {"i32", "str"} -> serialize_string(<<v.text>>, st)
      [] v.kind = "none" -> st
      [] v.kind = "some" -> Serialize(v.items[1], st)
      [] OTHER ->
            SerializerSeq_end(
                SerializeElements(v, 1,
                    SerializerSeq_new(v.name, BracketOf(v.kind), st)))

\* SerializerSeq::serialize_element
serialize_element(key, value, seq) ==
    IF seq.parent.level > 1
    THEN [seq EXCEPT !.output =
             @ \o (IF @[Len(@)] # BracketStart(seq.ty) THEN <<", ">> ELSE <<>>)
               \o (IF key # None THEN <<"\"", key.v, "\"", ": ">> ELSE <<>>)
               \o Json(value)]
    ELSE [seq EXCEPT !.parent = Serialize(value, @)]

\* serialize_element or serialize_field for every element, in order.
SerializeElements(v, k, seq) ==
    IF k > Len(v.items) THEN seq
    ELSE SerializeElements(v, k + 1, serialize_element(KeyOf(v, k), v.items[k], seq))

NoSer == [op |-> "new", value |-> SerValue("none", "", "", <<>>), row |-> <<>>,
          level |-> 0, panic |-> "none"]

\* serialize_row(value)
serialize_row(value) ==
    LET st == Serialize(value, [row |-> <<>>, level |-> 0, panic |-> "none"]) IN
    ser' = [op |-> "serialize_row", value |-> value, row |-> st.row,
            level |-> st.level, panic |-> st.panic]

\* ------------------------------------------------------------------ bounds
MaxNewLen == 2
MaxLifeWidth == 4
MaxSpan == 2
MaxRows == 3
MaxWidthRows == 2
MaxTotal == 12
MaxCols == 4

Widths == 0..MaxWidth

\* The display widths a border glyph can have (UnicodeWidthChar::width).
BorderWidths == 0..2

CellIdle ==
    /\ content = <<>>
    /\ col_span = 1
    /\ alignment = "Left"
    /\ pad_content = TRUE
    /\ layout_newlines = None
    /\ laid_width = -1
    /\ call = NoCall

JunctionIdle == junction = NoJunction

FixedIdle == fixed = NoFixed

SerIdle == ser = NoSer

RowIdle ==
    /\ self_row = [cells |-> <<>>, has_separator |-> TRUE]
    /\ prev_row = [cells |-> <<>>, has_separator |-> TRUE]
    /\ row_laid = <<>>
    /\ rcall = NoRowCall

\* ------------------------------------------------- specification: layout
\* One cell of any content: it is laid out at a width and its lines are
\* rendered at that width (at any width after an unbounded layout).
InitLayout ==
    /\ CellInit(Strings(MaxLen), Alignments, BOOLEAN)
    /\ JunctionIdle /\ TableInit /\ FixedIdle /\ RowIdle /\ SerIdle

NextLayout ==
    \/ \E w \in Widths \cup {USIZE_MAX} :
          layout(w) /\ UNCHANGED <<junction, tableVars, fixed, rowVars, ser>>
    \/ \E i \in 0..MaxLine, w \in Widths :
          /\ laid_width \in {w, USIZE_MAX}
          /\ render_line(i, w)
          /\ UNCHANGED <<junction, tableVars, fixed, rowVars, ser>>

SpecLayout == InitLayout /\ [][NextLayout]_vars

\* ------------------------------------------------- specification: cell
\* The life of one cell: setters, layout and render_line in any order.
Init ==
    /\ CellInit(Strings(MaxNewLen), {"Left"}, {TRUE})
    /\ JunctionIdle /\ TableInit /\ FixedIdle /\ RowIdle /\ SerIdle

Next ==
    \/ \E c \in Strings(MaxNewLen) :
          set_content(c) /\ UNCHANGED <<junction, tableVars, fixed, rowVars, ser>>
    \/ \E n \in 0..MaxSpan :
          set_col_span(n) /\ UNCHANGED <<junction, tableVars, fixed, rowVars, ser>>
    \/ \E a \in Alignments :
          set_alignment(a) /\ UNCHANGED <<junction, tableVars, fixed, rowVars, ser>>
    \/ \E p \in BOOLEAN :
          set_padding(p) /\ UNCHANGED <<junction, tableVars, fixed, rowVars, ser>>
    \/ \E w \in 0..MaxLifeWidth \cup {USIZE_MAX} :
          layout(w) /\ UNCHANGED <<junction, tableVars, fixed, rowVars, ser>>
    \/ \E i \in 0..MaxLine, w \in 0..MaxLifeWidth :
          render_line(i, w) /\ UNCHANGED <<junction, tableVars, fixed, rowVars, ser>>

Spec == Init /\ [][Next]_vars

\* ------------------------------------------------- specification: joiner
InitJoiner == CellIdle /\ JunctionInit /\ TableInit /\ FixedIdle /\ RowIdle /\ SerIdle

NextJoiner == joiner_call /\ UNCHANGED <<cellVars, tableVars, fixed, rowVars, ser>>

SpecJoiner == InitJoiner /\ [][NextJoiner]_vars

\* ------------------------------------------------- specification: render
\* A table of one-cell rows is built, its border flags are set and it is
\* rendered.
RenderRows ==
    {[cells |-> <<TableCellOf(d, 1, "Left", TRUE)>>, has_separator |-> s] :
        d \in {<<LETTER>>, <<LETTER, LF, LETTER>>}, s \in BOOLEAN}

InitRender == CellIdle /\ JunctionIdle /\ TableInit /\ FixedIdle /\ RowIdle /\ SerIdle

NextRender ==
    \/ \E r \in RenderRows :
          /\ Len(rows) < MaxRows
          /\ add_row(r)
          /\ UNCHANGED <<cellVars, junction, fixed, rowVars, ser>>
    \/ \E b \in BOOLEAN :
          set_separate_rows(b) /\ UNCHANGED <<cellVars, junction, fixed, rowVars, ser>>
    \/ \E b \in BOOLEAN :
          set_has_top_border(b) /\ UNCHANGED <<cellVars, junction, fixed, rowVars, ser>>
    \/ \E b \in BOOLEAN :
          set_has_bottom_border(b) /\ UNCHANGED <<cellVars, junction, fixed, rowVars, ser>>
    \/ render /\ UNCHANGED <<cellVars, junction, fixed, rowVars, ser>>

SpecRender == InitRender /\ [][NextRender]_vars

\* ------------------------------------------------- specification: widths
\* A table of rows with one or two cells of span one or two is built and
\* rendered, with or without a maximum column width.
SpanPatterns == {<<1>>, <<2>>, <<1, 1>>, <<1, 2>>, <<2, 1>>}

TableData == {<<LETTER>>, <<LETTER, LETTER>>}

CellsFor(p) ==
    {[k \in 1..Len(p) |-> TableCellOf(d[k], p[k], al[k], TRUE)] :
        d \in [1..Len(p) -> TableData], al \in [1..Len(p) -> {"Left", "Center"}]}

WidthRows ==
    {[cells |-> c, has_separator |-> TRUE] :
        c \in {<<>>} \cup UNION {CellsFor(p) : p \in SpanPatterns}}

InitWidths == CellIdle /\ JunctionIdle /\ TableInit /\ FixedIdle /\ RowIdle /\ SerIdle

NextWidths ==
    \/ \E r \in WidthRows :
          /\ Len(rows) < MaxWidthRows
          /\ add_row(r)
          /\ UNCHANGED <<cellVars, junction, fixed, rowVars, ser>>
    \/ \E w \in {4, USIZE_MAX} :
          /\ rows = <<>>
          /\ set_max_column_width(w)
          /\ UNCHANGED <<cellVars, junction, fixed, rowVars, ser>>
    \/ render /\ UNCHANGED <<cellVars, junction, fixed, rowVars, ser>>

SpecWidths == InitWidths /\ [][NextWidths]_vars

\* ------------------------------------------------- specification: fixed
InitFixed == CellIdle /\ JunctionIdle /\ TableInit /\ fixed = NoFixed /\ RowIdle /\ SerIdle

NextFixed ==
    \E t \in 0..MaxTotal, n \in 1..MaxCols, b \in BorderWidths :
        fixed_width_call(t, n, b) /\ UNCHANGED <<cellVars, junction, tableVars, rowVars, ser>>

SpecFixed == InitFixed /\ [][NextFixed]_vars

\* ------------------------------------------------- specification: ansi
\* One cell whose content holds at least one escape sequence is laid out at
\* a width and its lines are rendered at that width.
MaxAnsiLen == 4
MaxAnsiWidth == 5

AnsiStrings ==
    {c \in UNION {[1..k -> {LETTER, SPACE, LF, ESC, FINAL_M}] : k \in 0..MaxAnsiLen} :
        \E i \in 1..Len(c) : AnsiMatchAt(c, i)}

InitAnsi ==
    /\ CellInit(AnsiStrings, Alignments, BOOLEAN)
    /\ JunctionIdle /\ TableInit /\ FixedIdle /\ RowIdle /\ SerIdle

NextAnsi ==
    \/ \E w \in 1..MaxAnsiWidth :
          layout(w) /\ UNCHANGED <<junction, tableVars, fixed, rowVars, ser>>
    \/ \E i \in 0..MaxLine, w \in 1..MaxAnsiWidth :
          /\ laid_width = w
          /\ render_line(i, w)
          /\ UNCHANGED <<junction, tableVars, fixed, rowVars, ser>>

SpecAnsi == InitAnsi /\ [][NextAnsi]_vars

\* ------------------------------------------------- specification: row
\* A row under another row: it is laid out for the column widths of the
\* table and its content is rendered with them, or its separator is drawn.
MaxRowCells == 2
MaxRowSpan == 2

RowPatterns == UNION {[1..n -> 1..MaxRowSpan] : n \in 0..MaxRowCells}

RowData == {<<LETTER>>, <<LETTER, SPACE, LETTER>>}

RowCellsFor(p, data) ==
    {[k \in 1..Len(p) |-> RowCell(d[k], p[k], "Left", TRUE)] :
        d \in [1..Len(p) -> data]}

\* The widths of n columns, alternating between w and w + 1.
ColumnWidths(n) == {[i \in 1..n |-> w + ((i - 1) % 2)] : w \in {3, 4}}

RowStyles == {SIMPLE, BLANK}

InitRow ==
    /\ CellIdle /\ JunctionIdle /\ TableInit /\ FixedIdle /\ SerIdle
    /\ self_row \in {[cells |-> c, has_separator |-> s] :
                        c \in UNION {RowCellsFor(p, RowData) : p \in RowPatterns},
                        s \in BOOLEAN}
    /\ prev_row \in {[cells |-> c, has_separator |-> TRUE] :
                        c \in UNION {RowCellsFor(p, {<<LETTER>>}) : p \in RowPatterns}}
    /\ row_laid = <<>>
    /\ rcall = NoRowCall

NextRow ==
    \/ \E cw \in ColumnWidths(Max(columns(self_row), columns(prev_row))),
           style \in RowStyles :
          /\ rcall.op = "new"
          /\ row_layout(cw, border_width(style))
          /\ UNCHANGED <<cellVars, junction, tableVars, fixed, ser>>
    \/ \E style \in RowStyles :
          /\ rcall.op = "layout"
          /\ border_width(style) = rcall.border_width
          /\ row_render_content(rcall.column_widths, rcall.ret, style)
          /\ UNCHANGED <<cellVars, junction, tableVars, fixed, ser>>
    \/ \E cw \in ColumnWidths(Max(columns(self_row), columns(prev_row))),
           style \in RowStyles :
          /\ rcall.op # "render_separator"
          /\ row_render_separator(cw, style)
          /\ UNCHANGED <<cellVars, junction, tableVars, fixed, ser>>

SpecRow == InitRow /\ [][NextRow]_vars

\* ------------------------------------------- specification: cell widths
\* The widths of the cells of a row are taken from column widths that are
\* fewer, as many or more than the columns of the row.
MaxExtraColumns == 1

InitCellWidths ==
    /\ CellIdle /\ JunctionIdle /\ TableInit /\ FixedIdle /\ SerIdle
    /\ self_row \in {[cells |-> c, has_separator |-> TRUE] :
                        c \in UNION {RowCellsFor(p, RowData) : p \in RowPatterns}}
    /\ prev_row = [cells |-> <<>>, has_separator |-> TRUE]
    /\ row_laid = <<>>
    /\ rcall = NoRowCall

NextCellWidths ==
    \E n \in 0..(columns(self_row) + MaxExtraColumns), b \in BorderWidths :
        \E cw \in ColumnWidths(n) :
            /\ row_cell_widths(cw, b)
            /\ UNCHANGED <<cellVars, junction, tableVars, fixed, ser>>

SpecCellWidths == InitCellWidths /\ [][NextCellWidths]_vars

\* ------------------------------------------------ specification: joins
\* The joins of a row of up to MaxJoinCells cells are taken, up to some
\* items past the last column.
MaxJoinCells == 3
MaxJoinSpan == 3
MaxExtraJoins == 3

JoinPatterns == UNION {[1..n -> 1..MaxJoinSpan] : n \in 0..MaxJoinCells}

InitJoins ==
    /\ CellIdle /\ JunctionIdle /\ TableInit /\ FixedIdle /\ SerIdle
    /\ self_row \in {[cells |-> c, has_separator |-> TRUE] :
                        c \in UNION {RowCellsFor(p, {<<LETTER>>}) : p \in JoinPatterns}}
    /\ prev_row = [cells |-> <<>>, has_separator |-> TRUE]
    /\ row_laid = <<>>
    /\ rcall = NoRowCall

NextJoins ==
    \E n \in 0..(columns(self_row) + MaxExtraJoins) :
        /\ row_iter_joins(n)
        /\ UNCHANGED <<cellVars, junction, tableVars, fixed, ser>>

SpecJoins == InitJoins /\ [][NextJoins]_vars

\* ------------------------------------------------- specification: wrap
\* The content of one TableCell, of characters one or two columns wide,
\* spaces and line feeds, is wrapped at widths from its minimum width on.
MaxWrapLen == 4
MaxWrapExtra == 3

WrapStrings ==
    UNION {[1..k -> {LETTER, SPACE, LF, WIDE}] : k \in 0..MaxWrapLen}

InitWrap ==
    /\ CellIdle /\ JunctionIdle /\ FixedIdle /\ RowIdle /\ SerIdle
    /\ rows \in {<<[cells |-> <<TableCellOf(d, 1, "Left", p)>>,
                    has_separator |-> TRUE]>> : d \in WrapStrings, p \in BOOLEAN}
    /\ max_column_width = USIZE_MAX
    /\ max_column_widths = <<>>
    /\ has_separate_rows = TRUE
    /\ has_top_border = TRUE
    /\ has_bottom_border = TRUE
    /\ tcall = NoTableCall

NextWrap ==
    \E extra \in 0..MaxWrapExtra :
        /\ table_cell_wrapped_content(table_cell_min_width(rows[1].cells[1]) + extra)
        /\ UNCHANGED <<cellVars, junction, fixed, rowVars, ser>>

SpecWrap == InitWrap /\ [][NextWrap]_vars

\* -------------------------------------------------- specification: ser
\* A tuple or a struct of up to MaxSerItems elements, each a scalar, a None,
\* a Some or a sequence or struct of up to MaxNestedItems scalars, is
\* serialized to a row.
MaxSerItems == 2
MaxNestedItems == 2

SerLeaves ==
    {SerValue("i32", "1", "", <<>>), SerValue("str", "x", "", <<>>),
     SerValue("none", "", "", <<>>)}

SerNested ==
    {SerValue(kind, "", IF kind = "struct" THEN "S" ELSE "", items) :
        kind \in {"seq", "struct"},
        items \in UNION {[1..n -> SerLeaves] : n \in 0..MaxNestedItems}}

SerElements ==
    SerLeaves \cup SerNested
    \cup {SerValue("some", "", "", <<SerValue("i32", "1", "", <<>>)>>)}

SerTop ==
    {SerValue(kind, "", IF kind = "struct" THEN "S" ELSE "", items) :
        kind \in {"tuple", "struct"},
        items \in UNION {[1..n -> SerElements] : n \in 0..MaxSerItems}}

InitSer == CellIdle /\ JunctionIdle /\ TableInit /\ FixedIdle /\ RowIdle /\ SerIdle

NextSer ==
    \E value \in SerTop :
        /\ ser.op = "new"
        /\ serialize_row(value)
        /\ UNCHANGED <<cellVars, junction, tableVars, fixed, rowVars>>

SpecSer == InitSer /\ [][NextSer]_vars

\* ------------------------------------------------- specification: spans
\* The column span of a Cell is set, and a table of TableCells whose spans
\* were set is built and rendered.
MaxSpanRows == 2

SpanCells(n) ==
    {[k \in 1..n |->
         table_cell_set_col_span(TableCellOf(<<LETTER>>, 1, al[k], TRUE), sp[k])] :
        al \in [1..n -> {"Left", "Center"}], sp \in [1..n -> 0..MaxSpan]}

SpanRows ==
    {[cells |-> c, has_separator |-> TRUE] : c \in SpanCells(1) \cup SpanCells(2)}

InitSpans ==
    /\ CellInit({<<LETTER>>}, {"Left"}, {TRUE})
    /\ JunctionIdle /\ TableInit /\ FixedIdle /\ RowIdle /\ SerIdle

NextSpans ==
    \/ \E n \in 0..MaxSpan :
          set_col_span(n) /\ UNCHANGED <<junction, tableVars, fixed, rowVars, ser>>
    \/ layout(USIZE_MAX) /\ UNCHANGED <<junction, tableVars, fixed, rowVars, ser>>
    \/ \E r \in SpanRows :
          /\ Len(rows) < MaxSpanRows
          /\ add_row(r)
          /\ UNCHANGED <<cellVars, junction, fixed, rowVars, ser>>
    \/ render /\ UNCHANGED <<cellVars, junction, fixed, rowVars, ser>>

SpecSpans == InitSpans /\ [][NextSpans]_vars

\* ------------------------------------------------- specification: caps
\* Maximum widths are set for the table and for single columns, then a table
\* is built and rendered.
MaxCapRows == 2

CapPatterns == {<<1>>, <<2>>, <<1, 1>>, <<2, 1>>}

CapData == {<<LETTER>>, <<LETTER, LETTER, LETTER>>}

CapRows ==
    {[cells |-> [k \in 1..Len(p) |-> TableCellOf(d[k], p[k], al[k], TRUE)],
      has_separator |-> TRUE] :
        p \in CapPatterns, d \in [1..2 -> CapData],
        al \in [1..2 -> {"Left", "Center"}]}

InitCaps == CellIdle /\ JunctionIdle /\ TableInit /\ FixedIdle /\ RowIdle /\ SerIdle

NextCaps ==
    \/ \E w \in {4, USIZE_MAX} :
          /\ rows = <<>>
          /\ max_column_widths = <<>>
          /\ set_max_column_width(w)
          /\ UNCHANGED <<cellVars, junction, fixed, rowVars, ser>>
    \/ \E i \in 0..1, w \in {3, 6} :
          /\ rows = <<>>
          /\ i \notin DOMAIN max_column_widths
          /\ set_max_width_for_column(i, w)
          /\ UNCHANGED <<cellVars, junction, fixed, rowVars, ser>>
    \/ \E r \in CapRows :
          /\ Len(rows) < MaxCapRows
          /\ add_row(r)
          /\ UNCHANGED <<cellVars, junction, fixed, rowVars, ser>>
    \/ render /\ UNCHANGED <<cellVars, junction, fixed, rowVars, ser>>

SpecCaps == InitCaps /\ [][NextCaps]_vars

\* --------------------------------------------- specification: min width
\* The minimum width of one cell of any content, with or without ANSI escape
\* sequences, is asked for.
InitMin ==
    /\ CellInit(Strings(MaxLen) \cup AnsiStrings, {"Left"}, BOOLEAN)
    /\ JunctionIdle /\ TableInit /\ FixedIdle /\ RowIdle /\ SerIdle

NextMin ==
    \E only_mandatory \in BOOLEAN :
        /\ min_width_call(only_mandatory)
        /\ UNCHANGED <<junction, tableVars, fixed, rowVars, ser>>

SpecMin == InitMin /\ [][NextMin]_vars

\* ------------------------------------------------- specification: twice
\* A cell is laid out at one width after another, and a table is rendered
\* time and again while rows are added.
MaxTwiceRows == 2

TwiceData ==
    {<<SPACE, LETTER, SPACE, LETTER>>, <<LETTER, SPACE, LETTER, SPACE, LETTER>>,
     <<LETTER, LF, LETTER>>}

InitTwice ==
    /\ CellInit(TwiceData, {"Left"}, BOOLEAN)
    /\ JunctionIdle /\ TableInit /\ FixedIdle /\ RowIdle /\ SerIdle

NextTwice ==
    \/ \E w \in 1..MaxLifeWidth \cup {USIZE_MAX} :
          layout(w) /\ UNCHANGED <<junction, tableVars, fixed, rowVars, ser>>
    \/ \E r \in RenderRows :
          /\ Len(rows) < MaxTwiceRows
          /\ add_row(r)
          /\ UNCHANGED <<cellVars, junction, fixed, rowVars, ser>>
    \/ render /\ UNCHANGED <<cellVars, junction, fixed, rowVars, ser>>

SpecTwice == InitTwice /\ [][NextTwice]_vars

\* ------------------------------------------------------------------ claims
Range(s) == {s[k] : k \in 1..Len(s)}

RECURSIVE Sum(_)
Sum(s) == IF s = <<>> THEN 0 ELSE Head(s) + Sum(Tail(s))

\* C1 (SpecLayout): after layout(Some(w)) with w >= min_width(false), a line
\* that render_line takes is no wider than the content width layout used, and
\* render_line at w ends without the get_padding assertion failing and writes
\* at most w columns.
C1_RenderedLineFits ==
    (/\ call.op = "render_line"
     /\ layout_newlines.some
     /\ laid_width = call.width
     /\ laid_width >= min_width(content, pad_content, FALSE))
    => LET l == LineOf(content, layout_newlines.v, call.line_idx) IN
       /\ call.panic = "none"
       /\ StrWidth(l.line) <= ContentWidth(pad_content, laid_width)
       /\ StrWidth(call.written) <= call.width

\* C2 (SpecLayout): after a layout at any accepted width, every offset just
\* after a line feed inside the content is one of the cached line starts;
\* the content "a\nb" gets the line starts 0 and 2.
C2_MandatoryBreaksKept ==
    (call.op = "layout" /\ call.panic = "none")
    => /\ \A k \in 1..(Len(content) - 1) :
             content[k] = LF => k \in Range(layout_newlines.v)
       /\ content = <<LETTER, LF, LETTER>> => layout_newlines.v = <<0, 2>>

\* C3 (SpecLayout): a layout call at a width layout accepts ends without a
\* panic and returns the number of cached line starts.
C3_LayoutCompletes ==
    (call.op = "layout" /\ ~TooSmall(pad_content, call.width))
    => /\ call.panic = "none"
       /\ call.ret = Len(layout_newlines.v)

\* C4 (Spec): after any setter the cached line starts are gone, so that the
\* next render_line ends with the missed-layout panic and writes nothing.
C4_SettersInvalidate ==
    (/\ call.op \in {"set_content", "set_col_span", "set_alignment", "set_padding"}
     /\ call.panic = "none")
    => /\ layout_newlines = None
       /\ RenderLine(content, layout_newlines, alignment, pad_content, 0,
                     MaxLifeWidth) = [panic |-> "missed_layout", written |-> <<>>]

\* C5 (SpecJoiner): joiner returns the horizontal glyph when neither row has
\* a cell boundary at the junction, the top tee for a boundary below only,
\* the bottom tee for a boundary above only and the intersection for both;
\* at the rightmost position the top-right corner, the bottom-right corner
\* and the right vertical take the place of the last three.
C5_JoinerTable ==
    junction.called
    => LET ab == <<junction.above, junction.below>>
           s == junction.style
           last == junction.final_end
       IN /\ ab \in {<<"Empty", "Middle">>, <<"Middle", "Empty">>,
                     <<"Middle", "Middle">>}
                => junction.glyph = s.horizontal
          /\ ab \in {<<"Empty", "End">>, <<"Middle", "End">>}
                => junction.glyph = IF last THEN s.top_right_corner
                                    ELSE s.outer_top_horizontal
          /\ ab \in {<<"End", "Empty">>, <<"End", "Middle">>}
                => junction.glyph = IF last THEN s.bottom_right_corner
                                    ELSE s.outer_bottom_horizontal
          /\ ab = <<"End", "End">>
                => junction.glyph = IF last THEN s.outer_right_vertical
                                    ELSE s.intersection

C5_Witness ==
    /\ junction.called
    /\ junction.above = "Middle" /\ junction.below = "End"
    /\ junction.final_end
    /\ junction.style = EXTENDED
    /\ junction.glyph = "U+2557"

\* Whether the claim has the border line of row i drawn (C6).
C6_Drawn(i) ==
    /\ rows[i + 1].has_separator
    /\ (i = 0 /\ has_top_border) \/ (i > 0 /\ has_separate_rows)

\* The place in the output of the content of row i: after the contents of
\* the rows before it and the border lines drawn up to it (C6).
C6_ContentAt(i) == i + 1 + Cardinality({j \in 0..i : C6_Drawn(j)})

\* C6 (SpecRender): the output of a non-empty table is, row by row in
\* insertion order, the border line of the row iff the row has a separator
\* and the table flag for its position is set, then the content of the row,
\* and at the end one bottom border iff has_bottom_border; nothing else.
\* Clearing has_separator of the first row gives the output that clearing
\* has_top_border gives.
C6_RenderOrder ==
    /\ (tcall.op = "render" /\ rows # <<>>)
       => LET out == tcall.out
              n == Len(rows)
          IN /\ tcall.panic = "none"
             /\ Len(out) = n + Cardinality({j \in 0..(n - 1) : C6_Drawn(j)})
                             + (IF has_bottom_border THEN 1 ELSE 0)
             /\ \A i \in 0..(n - 1) :
                   /\ out[C6_ContentAt(i)].kind = "content"
                   /\ out[C6_ContentAt(i)].row = i
                   /\ C6_Drawn(i)
                      => /\ out[C6_ContentAt(i) - 1].kind = "separator"
                         /\ out[C6_ContentAt(i) - 1].row = i
                         /\ out[C6_ContentAt(i) - 1].pos # "Last"
             /\ has_bottom_border
                => /\ out[Len(out)].kind = "separator"
                   /\ out[Len(out)].pos = "Last"
    /\ rows # <<>>
       => fmt([rows EXCEPT ![1].has_separator = FALSE], has_top_border,
              has_separate_rows, has_bottom_border)
          = fmt(rows, FALSE, has_separate_rows, has_bottom_border)

C6_Witness ==
    /\ tcall.op = "render"
    /\ Len(rows) = 3
    /\ ~rows[1].has_separator /\ rows[2].has_separator /\ ~rows[3].has_separator
    /\ has_top_border /\ has_separate_rows /\ has_bottom_border
    /\ Len(tcall.out) = 5

\* C7 (SpecRender): rendering a table without rows is no error and gives
\* exactly one line, the marker of the empty table, and no border line.
C7_EmptyTableSentinel ==
    (tcall.op = "render" /\ rows = <<>>)
    => /\ tcall.panic = "none"
       /\ Len(tcall.out) = 1
       /\ tcall.out[1].kind = "empty"

\* No maximum width is configured (C8).
C8_Unconstrained == max_column_width = USIZE_MAX /\ max_column_widths = <<>>

\* The cell of a row that covers column col (from 0) and the place of col
\* in its span (C8).
RECURSIVE C8_CellAt(_, _, _)
C8_CellAt(cells, k, col) ==
    IF col < cells[k].col_span THEN [cell |-> cells[k], j |-> col]
    ELSE C8_CellAt(cells, k + 1, col - cells[k].col_span)

\* A row's requirement for a column as the claim has it: the width of a
\* span-1 cell; for a span-k cell the width less k - 1 borders of width 1,
\* split evenly with the remainder to the first columns (C8).
C8_ClaimedNeed(row, col) ==
    IF col >= num_columns(row) THEN 0
    ELSE LET at == C8_CellAt(row.cells, 1, col)
             k == at.cell.col_span
             w == table_cell_width(at.cell)
         IN IF k = 1 THEN w
            ELSE (w - (k - 1)) \div k + (IF at.j < (w - (k - 1)) % k THEN 1 ELSE 0)

\* A row's requirement for a column: the width of the cell that covers it
\* divided by the span of the cell, rounded down (C8).
C8_Need(row, col) ==
    IF col >= num_columns(row) THEN 0
    ELSE LET at == C8_CellAt(row.cells, 1, col) IN
         table_cell_width(at.cell) \div at.cell.col_span

C8_MaxOver(need(_, _), col) ==
    LET all == {need(rows[r], col) : r \in 1..Len(rows)} IN
    CHOOSE m \in all : \A x \in all : x <= m

C8_CenterCells ==
    Cardinality({<<r, k>> \in (1..Len(rows)) \X (1..MaxColumns(rows)) :
                    /\ k <= Len(rows[r].cells)
                    /\ rows[r].cells[k].alignment = "Center"})

C9_FixedWidthsFillTotal ==
    (/\ fixed.called
     /\ fixed.columns >= 1
     /\ fixed.total_width >= fixed.border_width * (fixed.columns + 1))
    => LET n == fixed.columns
           b == fixed.border_width
           ws == fixed.widths
       IN /\ fixed.ok
          /\ Len(ws) = n
          /\ \A i \in 1..(n - 1) : ws[i] = (fixed.total_width - b) \div n - b
          /\ \A i \in 1..n : ws[i] >= 0 /\ ws[n] >= ws[i]
          /\ Sum(ws) + (n - 1) * b + 2 * b = fixed.total_width

C9_Witness ==
    /\ fixed.called
    /\ fixed.total_width = 12 /\ fixed.columns = 3 /\ fixed.border_width = 1
    /\ fixed.widths = <<2, 2, 4>>

\* C10 (SpecFixed): the solver rejects the request exactly when the total
\* width is below border_width * (columns + 1), and a rejected request gets
\* no column widths.
C10_RejectsBelowBorders ==
    fixed.called
    => /\ ~fixed.ok <=> fixed.total_width < fixed.border_width * (fixed.columns + 1)
       /\ ~fixed.ok => fixed.widths = <<>>
       /\ fixed.ok => Len(fixed.widths) = fixed.columns

C10_Witness ==
    /\ fixed.called
    /\ ~fixed.ok
    /\ fixed.total_width = 3 /\ fixed.columns = 3 /\ fixed.border_width = 1

\* The content has no break opportunity before its end (C13).
C13_NoInteriorBreak == Len(linebreaks(content)) <= 1

\* C13 (SpecLayout): a content without an interior break opportunity that is
\* exactly as wide as the content width is laid out as one line; one that is
\* one column wider is split into more than one line, none of them wider than
\* the content width.
C13_ExactFitAndHardSplit ==
    (/\ call.op = "layout"
     /\ ~TooSmall(pad_content, call.width)
     /\ C13_NoInteriorBreak)
    => LET cw == ContentWidth(pad_content, call.width) IN
       /\ StrWidth(content) = cw
          => call.panic = "none" /\ call.ret = 1
       /\ StrWidth(content) - 1 = cw
          => /\ call.panic = "none"
             /\ call.ret > 1
             /\ \A i \in 0..(call.ret - 1) :
                   LET l == LineOf(content, layout_newlines.v, i) IN
                   l.ok /\ StrWidth(l.line) <= cw

\* C14 (SpecLayout): a layout call ends in a panic exactly when its width is
\* below 1, or below 3 for a padded cell; the panic leaves the cached line
\* starts as they were, and layout(None) does not end in it.
C14_PanicsOnlyWhenTooSmall ==
    [][call'.op = "layout" /\ call' # call
       => /\ call'.panic # "none" <=> TooSmall(pad_content, call'.width)
          /\ call'.panic # "none" => layout_newlines' = layout_newlines
          /\ call'.width = USIZE_MAX => call'.panic # "too_small"]_vars

\* C17 (SpecLayout): render_line of a padded cell at the width the cell was
\* laid out at writes a space, the front slack, the line, the back slack and
\* a space, width columns in all; the slack gap = width - line_width - 2 goes
\* after the line for Left, before it for Right, and is halved for Center
\* with the odd column after the line.
C17_PaddedLineFillsWidth ==
    (/\ call.op = "render_line"
     /\ pad_content
     /\ layout_newlines.some
     /\ laid_width = call.width
     /\ laid_width >= min_width(content, pad_content, FALSE))
    => LET l == LineOf(content, layout_newlines.v, call.line_idx)
           gap == call.width - StrWidth(l.line) - 2
           front == CASE alignment = "Left" -> 0
                      [] alignment = "Right" -> gap
                      [] alignment = "Center" -> gap \div 2
       IN /\ call.panic = "none"
          /\ gap >= 0
          /\ call.written = <<SPACE>> \o Spaces(front) \o l.line
                            \o Spaces(gap - front) \o <<SPACE>>
          /\ StrWidth(call.written) = call.width

\* C18 (SpecLayout): render_line for a line index at or past the number of
\* lines laid out ends without a panic and writes a line without text that is
\* exactly width columns wide, whatever the alignment and the padding.
C18_LinePastEndIsBlank ==
    (/\ call.op = "render_line"
     /\ layout_newlines.some
     /\ laid_width = call.width
     /\ call.line_idx >= Len(layout_newlines.v))
    => /\ call.panic = "none"
       /\ \A k \in 1..Len(call.written) : call.written[k] \in {SPACE, NUL}
       /\ StrWidth(call.written) = call.width

\* The lines render_line takes from the content, one after the other (C12).
RECURSIVE C12_Lines(_, _, _)
C12_Lines(c, newlines, i) ==
    IF i >= Len(newlines) THEN <<>>
    ELSE LineOf(c, newlines, i).line \o C12_Lines(c, newlines, i + 1)

\* C12 (SpecAnsi): for a content with escape sequences, the line render_line
\* takes from the content is the laid-out line of the text without sequences
\* with the sequences still in it, the lines together are the whole content,
\* and the sequences count nothing in the padding: a line whose text fits the
\* width is written, and a padded cell shows exactly width columns.
C12_SequencesCountZero ==
    (/\ call.op = "render_line"
     /\ layout_newlines.some
     /\ laid_width = call.width)
    => LET l == LineOf(content, layout_newlines.v, call.line_idx)
           shown == LineOf(content_for_layout(content), layout_newlines.v,
                           call.line_idx)
       IN /\ l.ok
          /\ content_for_layout(l.line) = shown.line
          /\ C12_Lines(content, layout_newlines.v, 0) = content
          /\ call.width >= StrWidth(shown.line) + 2
             => /\ call.panic = "none"
                /\ pad_content
                   => StrWidth(content_for_layout(call.written)) = call.width

\* The spanned width of cell k of the row for the column widths and the
\* border width of the last call: the widths of its columns and the borders
\* between them (C11).
C11_SpannedWidth(k) ==
    LET first == SumSpans(SubSeq(self_row.cells, 1, k - 1))
        span == self_row.cells[k].col_span
    IN Sum(SubSeq(rcall.column_widths, first + 1, first + span))
       + rcall.border_width * (span - 1)

C11_MaxLines ==
    LET counts == {Len(self_row.cells[k].layout_newlines.v) :
                      k \in 1..Len(self_row.cells)} \cup {0}
    IN CHOOSE m \in counts : \A x \in counts : x <= m

\* C11 (SpecRow): Row::layout lays out every cell at its spanned width, the
\* width render_content then passes to render_line for it, and returns the
\* largest line count of the cells, 0 for a row without cells.
C11_LayoutAtSpannedWidth ==
    /\ rcall.op = "layout"
       => /\ \A k \in 1..Len(row_laid) : row_laid[k] = C11_SpannedWidth(k)
          /\ rcall.panic = "none"
             => /\ Len(row_laid) = Len(self_row.cells)
                /\ rcall.ret = C11_MaxLines
    /\ rcall.op = "render_content"
       => \A k \in 1..Len(rcall.cell_widths) :
             /\ rcall.cell_widths[k] = C11_SpannedWidth(k)
             /\ rcall.cell_widths[k] = row_laid[k]

\* The border type of a row at column position p, from the spans of its
\* cells (C16).
C16_JoinAt(cells, p) ==
    IF p > SumSpans(cells) THEN "Empty"
    ELSE IF \E k \in 0..Len(cells) : SumSpans(SubSeq(cells, 1, k)) = p THEN "End"
    ELSE "Middle"

\* C16 (SpecRow): iter_junctions yields one junction for every column
\* position from 0 to the larger column count of the two rows, each with the
\* border types of the two rows there, and ends before the first position
\* where both are Empty; render_separator passes no (Empty, Empty) to joiner
\* and does not reach its unreachable arm.
C16_JunctionsStopBeforeEmpty ==
    rcall.op = "render_separator"
    => LET js == rcall.junctions
           n == Max(columns(prev_row), columns(self_row))
       IN /\ Len(js) = n + 1
          /\ \A p \in 0..n :
                /\ js[p + 1].above = C16_JoinAt(prev_row.cells, p)
                /\ js[p + 1].below = C16_JoinAt(self_row.cells, p)
                /\ ~(js[p + 1].above = "Empty" /\ js[p + 1].below = "Empty")
          /\ C16_JoinAt(prev_row.cells, n + 1) = "Empty"
          /\ C16_JoinAt(self_row.cells, n + 1) = "Empty"
          /\ \A k \in 1..Len(rcall.joined) :
                ~(rcall.joined[k].above = "Empty" /\ rcall.joined[k].below = "Empty")
          /\ rcall.panic = "none"

C16_Witness ==
    /\ rcall.op = "render_separator"
    /\ self_row.has_separator
    /\ columns(prev_row) = 3 /\ columns(self_row) = 1
    /\ Len(rcall.junctions) = 4
    /\ rcall.junctions[3] = [above |-> "Middle", below |-> "Empty"]
    /\ Len(rcall.joined) = 3
    /\ Len(rcall.out) = 1

\* C15 (SpecSpans): the column span of every cell, Cell or TableCell, is at
\* least 1 in every state: a span of 0 is rejected with a panic, the span and
\* the cached layout staying as they were.
C15_SpanAtLeastOne ==
    /\ col_span >= 1
    /\ call.panic = "col_span_0" => call.op = "set_col_span"
    /\ \A r \in 1..Len(rows) : \A k \in 1..Len(rows[r].cells) :
          rows[r].cells[k].col_span >= 1

\* C19 (SpecSpans): the column widths computed for a render are as many as
\* the largest column count of a row, and the computation ends without an
\* index outside that vector.
C19_WidthsCoverColumns ==
    tcall.op = "render"
    => /\ tcall.panic = "none"
       /\ Len(tcall.max_widths) = MaxColumns(rows)

\* The largest minimum width the rows report for column i, from 0 (C20).
C20_MinWidth(i) ==
    LET all == {split_column_widths(rows[r].cells)[i + 1].min :
                   r \in {q \in 1..Len(rows) : num_columns(rows[q]) > i}} \cup {0}
    IN CHOOSE m \in all : \A x \in all : x <= m

\* The maximum width configured for column i, from 0: the column's own if
\* one was set, the table's otherwise (C20).
C20_Cap(i) ==
    IF i \in DOMAIN max_column_widths THEN max_column_widths[i]
    ELSE max_column_width

C21_FirstColumn(cells, k) == SumSpans(SubSeq(cells, 1, k - 1))

\* C21 (SpecWidths): with no maximum width configured, after a render every
\* centre-aligned cell has an even slack: the widths of the columns it spans,
\* found at the sum of the spans of the cells before it, less its own width.
C21_CenterSlackEven ==
    (tcall.op = "render" /\ C8_Unconstrained /\ tcall.panic = "none")
    => \A r \in 1..Len(rows) : \A k \in 1..Len(rows[r].cells) :
          LET cell == rows[r].cells[k]
              first == C21_FirstColumn(rows[r].cells, k)
          IN cell.alignment = "Center"
             => (SumRange(tcall.max_widths, first, first + cell.col_span)
                 - table_cell_width(cell)) % 2 = 0

\* The break positions min_width considers in c, with both ends of c (C22).
C22_Positions(c, only_mandatory) ==
    {0, Len(c)} \cup
    {i \in 1..Len(c) : \/ BreakAt(c, i) = "Mandatory"
                       \/ (~only_mandatory /\ BreakAt(c, i) = "Allowed")}

\* The largest display width of a segment of c between two consecutive
\* positions (C22).
C22_LargestSegment(c, only_mandatory) ==
    LET ps == C22_Positions(c, only_mandatory)
        consecutive ==
            {<<p, q>> \in ps \X ps : p < q /\ ~\E x \in ps : p < x /\ x < q}
        ws == {StrWidth(Slice(c, pq[1], pq[2])) : pq \in consecutive} \cup {0}
    IN CHOOSE m \in ws : \A x \in ws : x <= m

\* C22 (SpecMin): min_width(only_mandatory) returns the largest display
\* width of a segment of the content (without its ANSI escape sequences)
\* between consecutive considered break positions, plus 2 iff the cell is
\* padded; it is never smaller with only mandatory breaks than with all
\* breaks; an empty content gives 2 when padded and 0 otherwise.
C22_MinWidthIsLargestSegment ==
    call.op = "min_width"
    => LET c == content_for_layout(content)
           pad == IF pad_content THEN 2 ELSE 0
       IN /\ call.ret = C22_LargestSegment(c, call.only_mandatory) + pad
          /\ call.only_mandatory
             => call.ret >= C22_LargestSegment(c, FALSE) + pad
          /\ ~call.only_mandatory
             => call.ret <= C22_LargestSegment(c, TRUE) + pad
          /\ content = <<>> => call.ret = pad

C22_Witness ==
    /\ call.op = "min_width"
    /\ call.only_mandatory
    /\ pad_content
    /\ call.ret > min_width(content_for_layout(content), pad_content, FALSE)
    /\ \E i \in 1..Len(content) : content[i] = LF

\* C23 (SpecCellWidths): Cell::width returns the sum of the first col_span
\* widths plus border_width * (col_span - 1) and the widths after them; over
\* the cells of a row the calls consume exactly columns() widths, and a call
\* fails when fewer than col_span widths remain, that is, when the widths are
\* fewer than the columns of the row.
C23_WidthConsumesSpan ==
    rcall.op = "width"
    => LET cw == rcall.column_widths
           cells == self_row.cells
           n == columns(self_row)
       IN /\ rcall.panic = "index" <=> Len(cw) < n
          /\ rcall.panic = "none"
             => /\ Len(rcall.cell_widths) = Len(cells)
                /\ \A k \in 1..Len(cells) :
                      LET first == SumSpans(SubSeq(cells, 1, k - 1)) IN
                      rcall.cell_widths[k] =
                          Sum(SubSeq(cw, first + 1, first + cells[k].col_span))
                          + rcall.border_width * (cells[k].col_span - 1)
                /\ rcall.rest = SubSeq(cw, n + 1, Len(cw))

C23_Witness ==
    /\ rcall.op = "width" /\ rcall.panic = "none"
    /\ rcall.border_width = 1
    /\ Len(self_row.cells) = 2
    /\ self_row.cells[1].col_span = 2
    /\ rcall.rest # <<>>

\* The line count of a layout of the cell at width w, or -1 when the layout
\* does not return (C24).
C24_Lines(w) ==
    IF TooSmall(pad_content, w) THEN -1
    ELSE LET r == LayoutNewlines(content_for_layout(content),
                                 ContentWidth(pad_content, w))
         IN IF r.panic = "none" THEN Len(r.ln) ELSE -1

C26_CellWidths(r, cw) ==
    CellWidths(r.cells, 1, 1, cw,
               [widths |-> <<>>, rest |-> <<>>, panic |-> "none"]).widths

\* The offsets, from 0, of the vertical borders of a content line of a row:
\* one before every cell and one after the last (C26).
C26_BorderOffsets(r, cw) ==
    LET ws == C26_CellWidths(r, cw) IN
    {Sum([j \in 1..k |-> ws[j] + 1]) : k \in 0..Len(ws)}

\* The display width of a content line of a row (C26).
C26_ContentWidth(r, cw) ==
    LET ws == C26_CellWidths(r, cw) IN Sum([j \in 1..Len(ws) |-> ws[j] + 1]) + 1

\* The offset, from 0, of the junction after column k in a separator (C26).
C26_JunctionOffset(cw, k) == k + Sum(SubSeq(cw, 1, k))

\* C26 (SpecRow): with a border of width 1, a content line that render_content
\* writes has its vertical borders before every cell and at its end and
\* nowhere else; the separator between prev and self over the same column
\* widths is as wide as the content line of the row with more columns, the
\* junction after every column has below = End exactly where the content line
\* of self has a vertical border and above = End exactly where that of prev
\* has one, and every position but those with an End is a horizontal glyph.
C26_SeparatorMatchesContent ==
    /\ (rcall.op = "render_content" /\ rcall.panic = "none"
        /\ rcall.border_width = 1)
       => \A l \in 1..Len(rcall.out) :
             /\ Len(rcall.out[l]) = C26_ContentWidth(self_row, rcall.column_widths)
             /\ {i \in 0..(Len(rcall.out[l]) - 1) :
                    rcall.out[l][i + 1] = rcall.style.vertical}
                = C26_BorderOffsets(self_row, rcall.column_widths)
    /\ (rcall.op = "render_separator" /\ rcall.panic = "none"
        /\ rcall.border_width = 1 /\ self_row.has_separator)
       => LET cw == rcall.column_widths
              line == rcall.out[1]
              at == {C26_JunctionOffset(cw, k) : k \in 1..Len(cw)}
          IN /\ Len(rcall.out) = 1
             /\ Len(line) = Max(C26_ContentWidth(self_row, cw),
                                C26_ContentWidth(prev_row, cw))
             /\ Len(rcall.joined) = Len(cw)
             /\ \A k \in 1..Len(cw) :
                   LET o == C26_JunctionOffset(cw, k) IN
                   /\ rcall.joined[k].below = "End"
                      <=> o \in C26_BorderOffsets(self_row, cw)
                   /\ rcall.joined[k].above = "End"
                      <=> o \in C26_BorderOffsets(prev_row, cw)
                   /\ line[o + 1] = rcall.style.horizontal
                      <=> /\ rcall.joined[k].below # "End"
                          /\ rcall.joined[k].above # "End"
             /\ \A i \in 1..(Len(line) - 1) :
                   i \notin at => line[i + 1] = rcall.style.horizontal

C26_Witness ==
    /\ rcall.op = "render_separator" /\ rcall.panic = "none"
    /\ rcall.border_width = 1 /\ self_row.has_separator
    /\ Len(self_row.cells) = 2
    /\ self_row.cells[1].col_span = 2
    /\ Len(prev_row.cells) = 2
    /\ prev_row.cells[1].col_span = 1 /\ prev_row.cells[2].col_span = 1
    /\ rcall.joined[1] = [above |-> "End", below |-> "Middle"]
    /\ rcall.joined[2] = [above |-> "End", below |-> "End"]
    /\ rcall.joined[3] = [above |-> "Empty", below |-> "End"]

\* The columns at which a cell of the row ends, with 0 (C27).
C27_Ends(cells) == {SumSpans(SubSeq(cells, 1, k)) : k \in 0..Len(cells)}

\* The items iter_joins is to yield for the cells: End, then for every cell
\* col_span - 1 times Middle and one End (C27).
RECURSIVE C27_Expected(_)
C27_Expected(cells) ==
    IF cells = <<>> THEN <<"End">>
    ELSE LET init == SubSeq(cells, 1, Len(cells) - 1)
             last == cells[Len(cells)]
         IN C27_Expected(init)
            \o [i \in 1..(last.col_span - 1) |-> "Middle"] \o <<"End">>

\* C27 (SpecJoins): the first n items of iter_joins are those of End, then
\* for every cell col_span - 1 times Middle and one End, then Empty only; the
\* item at position p is End iff p is 0 or the sum of the spans of the first
\* cells, Middle iff 0 < p < columns() and p is no such sum, Empty iff
\* p > columns().
C27_JoinsFollowSpans ==
    rcall.op = "iter_joins"
    => LET cells == self_row.cells
           exp == C27_Expected(cells)
       IN /\ Len(rcall.joins) = rcall.ret
          /\ \A p \in 0..(Len(rcall.joins) - 1) :
                LET item == rcall.joins[p + 1] IN
                /\ item = (IF p < Len(exp) THEN exp[p + 1] ELSE "Empty")
                /\ item = "End" <=> p \in C27_Ends(cells)
                /\ item = "Middle"
                   <=> (0 < p /\ p < columns(self_row) /\ p \notin C27_Ends(cells))
                /\ item = "Empty" <=> p > columns(self_row)

C27_Witness ==
    /\ rcall.op = "iter_joins"
    /\ Len(self_row.cells) = 2
    /\ rcall.joins = <<"End", "Middle", "Middle", "End", "End", "Empty", "Empty">>

\* The slices render_line takes for the lines from i on, one after the
\* other; a slice whose bounds are rejected counts as empty (C28).
RECURSIVE C28_Concat(_, _, _)
C28_Concat(c, newlines, i) ==
    IF i >= Len(newlines) THEN <<>>
    ELSE LineOf(c, newlines, i).line \o C28_Concat(c, newlines, i + 1)

\* C28 (SpecLayout): after a layout that returns, the cached line starts begin
\* with 0, increase strictly and are smaller than the length of the content
\* (the single 0 for an empty content), and the slices of the lines add up
\* to the content.
C28_LineStartsWellFormed ==
    (call.op = "layout" /\ call.panic = "none")
    => LET ln == layout_newlines.v IN
       /\ ln # <<>> /\ ln[1] = 0
       /\ \A i \in 1..(Len(ln) - 1) : ln[i] < ln[i + 1]
       /\ \A i \in 1..Len(ln) : ln[i] < Len(content) \/ (content = <<>> /\ ln = <<0>>)
       /\ \A i \in 0..(Len(ln) - 1) : LineOf(content, ln, i).ok
       /\ C28_Concat(content, ln, 0) = content

\* A sequence of strings, one after the other (C29).
RECURSIVE C29_Concat(_)
C29_Concat(lines) ==
    IF lines = <<>> THEN <<>> ELSE Head(lines) \o C29_Concat(Tail(lines))

\* C29 (SpecWrap): at a width of at least min_width(), every line that
\* wrapped_content returns is at most that wide with its two padding
\* characters, holds no line feed, there is a line more than line feeds in
\* the content at least, and the lines without their padding add up to the
\* content without its line feeds.
C29_WrappedLinesFit ==
    tcall.op = "wrapped_content"
    => LET cell == rows[1].cells[1]
           lines == tcall.out
           inner == [l \in 1..Len(lines) |->
                        SubSeq(lines[l], 2, Len(lines[l]) - 1)]
       IN /\ \A l \in 1..Len(lines) :
                /\ StrWidth(lines[l]) <= tcall.width
                /\ \A i \in 1..Len(lines[l]) : lines[l][i] # LF
          /\ Len(lines) > Cardinality({i \in 1..Len(cell.data) : cell.data[i] = LF})
          /\ C29_Concat(inner) = SelectSeq(cell.data, LAMBDA ch : ch # LF)

\* C30 (SpecSer): serialize_row of a tuple or struct returns a row of as many
\* cells as the value has elements, in order: the text of a scalar, and for a
\* nested sequence or struct one cell from its opening to its closing
\* bracket; the level never goes below 0 and is 0 at the end.
C30_OneCellPerElement ==
    ser.op = "serialize_row"
    => LET items == ser.value.items IN
       /\ ser.panic = "none"
       /\ ser.level = 0
       /\ Len(ser.row) = Len(items)
       /\ \A k \in 1..Len(items) :
             LET v == IF items[k].kind = "some" THEN items[k].items[1] ELSE items[k]
                 cell == ser.row[k]
             IN /\ v.kind \in {"i32", "str"} => cell = <<v.text>>
                /\ v.kind \in {"seq", "struct"}
                   => /\ BracketStart(BracketOf(v.kind)) \in Range(cell)
                      /\ cell[Len(cell)] = BracketEnd(BracketOf(v.kind))
                      /\ \A i \in 1..Len(v.items) :
                            \E j \in 1..Len(cell) :
                                SubSeq(cell, j, j + Len(Json(v.items[i])) - 1)
                                = Json(v.items[i])

====
